---- MODULE Spec2Model ----
(***************************************************************************)
(* A model of the diskcache package (src/diskcache.go): a directory of     *)
(* files, one per cache entry, named by the SHA-256 of the key and holding *)
(* the JSON encoding of Data{Expiry, Key, Value}.                          *)
(*                                                                         *)
(* A file's content is the sequence of its bytes.  An operation is a       *)
(* sequence of steps, one for each system call that reads or changes what  *)
(* the callers share (the clock, the directory, a file), so that the steps *)
(* of two callers interleave as the calls of two processes do.  Time is    *)
(* counted in clock ticks, TicksPerSecond of them to the second.           *)
(***************************************************************************)
EXTENDS Integers, Sequences, FiniteSets, TLC

(* ------------------------------ bounds --------------------------------- *)

\* The clock runs from 0 to MaxClock ticks.
MaxClock == 2

\* Ticks per second of the modelled clock (RFC 3339 prints whole seconds and
\* leaves the fraction out when it is zero).
TicksPerSecond == 2

\* Keys: the empty key, an ASCII key and a key that is not valid UTF-8 (the
\* byte 0xFF).
Keys == {<<>>, <<97>>, <<255>>}

\* A nil []byte, which is not the empty slice: json.Marshal writes null for
\* it.
Nil == <<256>>

\* Values: the empty value and a value of one byte.
Values == {<<>>, <<255>>}

\* Values, the nil slice among them.
NilValues == Values \cup {Nil}

\* Durations (ttl) in ticks.
Durations == {-1, 1}

\* The callers (goroutines or processes) that share the directory.
Callers == {1, 2}

\* The keys of the runs of Clean: a key that is not valid UTF-8 and the key
\* json.Marshal stores in its place.
CleanKeys == {<<255>>, <<239, 191, 189>>}

\* The keys of the runs of Clean with more than one failing deletion: a
\* second key that is not valid UTF-8 (the byte 0xFE), which json.Marshal
\* stores as the same key.
TaskKeys == CleanKeys \cup {<<254>>}

\* Every key a run can use.
AllKeys == Keys \cup TaskKeys

(* --------------------------- encoding/json ----------------------------- *)

\* The bytes of U+FFFD in UTF-8.
ReplacementRune == <<239, 191, 189>>

\* utf8.DecodeRuneInString on a string that is not empty: the number of
\* bytes of the well-formed rune the string starts with (one byte of ASCII,
\* or a leading byte and its continuation bytes, neither overlong nor a
\* surrogate nor beyond U+10FFFF), 0 if it starts with none.
RuneLen(s) ==
  LET b(i)    == IF i <= Len(s) THEN s[i] ELSE 0
      cont(i) == b(i) >= 128 /\ b(i) <= 191
  IN  IF b(1) < 128 THEN 1
      ELSE IF b(1) >= 194 /\ b(1) <= 223 /\ cont(2) THEN 2
      ELSE IF /\ b(1) >= 224 /\ b(1) <= 239 /\ cont(2) /\ cont(3)
              /\ b(1) = 224 => b(2) >= 160
              /\ b(1) = 237 => b(2) <= 159
           THEN 3
      ELSE IF /\ b(1) >= 240 /\ b(1) <= 244 /\ cont(2) /\ cont(3) /\ cont(4)
              /\ b(1) = 240 => b(2) >= 144
              /\ b(1) = 244 => b(2) <= 143
           THEN 4
      ELSE 0

\* s[m..n], as much of it as there is.
Slice(s, m, n) ==
  SubSeq(s, IF m < 1 THEN 1 ELSE m, IF n > Len(s) THEN Len(s) ELSE n)

\* The digits of fmt's %x and of the \u escapes of encoding/json: 0-9 and
\* a-f, as bytes.
HexDigit(n) == IF n < 10 THEN 48 + n ELSE 87 + n

\* The value of a hexadecimal digit of either case, -1 for any other byte.
HexVal(c) ==
  IF c >= 48 /\ c <= 57 THEN c - 48
  ELSE IF c >= 97 /\ c <= 102 THEN c - 87
  ELSE IF c >= 65 /\ c <= 70 THEN c - 55
  ELSE 0 - 1

\* The bytes json.Marshal writes for one byte of ASCII inside a string (with
\* HTML escaping, the default): the byte itself when it is safe, a
\* backslash and a letter for the quote, the backslash and \b \f \n \r \t,
\* and \u00XX for the other control characters and for < > &.
EscapeASCII(b) ==
  IF b = 34 \/ b = 92 THEN <<92, b>>
  ELSE IF b = 8 THEN <<92, 98>>
  ELSE IF b = 12 THEN <<92, 102>>
  ELSE IF b = 10 THEN <<92, 110>>
  ELSE IF b = 13 THEN <<92, 114>>
  ELSE IF b = 9 THEN <<92, 116>>
  ELSE IF b < 32 \/ b = 60 \/ b = 62 \/ b = 38
       THEN <<92, 117, 48, 48, HexDigit(b \div 16), HexDigit(b % 16)>>
  ELSE <<b>>

\* json.Marshal on the content of a string (appendString): ASCII escaped as
\* above, a well-formed rune as it is, except U+2028 and U+2029, written as
\* the escapes of six bytes, and a byte that starts no rune written as the
\* escape of U+FFFD, the six bytes backslash u f f f d.
RECURSIVE EscapeString(_)
EscapeString(s) ==
  IF s = <<>> THEN <<>>
  ELSE IF s[1] < 128 THEN EscapeASCII(s[1]) \o EscapeString(Tail(s))
  ELSE IF RuneLen(s) = 0
       THEN <<92, 117, 102, 102, 102, 100>> \o EscapeString(Tail(s))
  ELSE IF Slice(s, 1, 3) = <<226, 128, 168>>
       THEN <<92, 117, 50, 48, 50, 56>>
              \o EscapeString(SubSeq(s, 4, Len(s)))
  ELSE IF Slice(s, 1, 3) = <<226, 128, 169>>
       THEN <<92, 117, 50, 48, 50, 57>>
              \o EscapeString(SubSeq(s, 4, Len(s)))
  ELSE SubSeq(s, 1, RuneLen(s))
         \o EscapeString(SubSeq(s, RuneLen(s) + 1, Len(s)))

\* utf8.AppendRune: the UTF-8 bytes of a code point; U+FFFD for a surrogate
\* and for a number beyond U+10FFFF.
EncodeRune(r) ==
  IF r < 128 THEN <<r>>
  ELSE IF r < 2048 THEN <<192 + (r \div 64), 128 + (r % 64)>>
  ELSE IF (r >= 55296 /\ r <= 57343) \/ r > 1114111 THEN ReplacementRune
  ELSE IF r < 65536
       THEN <<224 + (r \div 4096), 128 + ((r \div 64) % 64), 128 + (r % 64)>>
  ELSE <<240 + (r \div 262144), 128 + ((r \div 4096) % 64),
         128 + ((r \div 64) % 64), 128 + (r % 64)>>

\* What stands for bytes that are not the content of a JSON string.
Invalid == <<0 - 1>>

\* The code point of the escape \uXXXX a string starts with, -1 when the
\* string does not start with one.
GetU4(s) ==
  IF Len(s) < 6 \/ s[1] # 92 \/ s[2] # 117 THEN 0 - 1
  ELSE IF \E i \in 3..6 : HexVal(s[i]) < 0 THEN 0 - 1
  ELSE HexVal(s[3]) * 4096 + HexVal(s[4]) * 256 + HexVal(s[5]) * 16
         + HexVal(s[6])

\* The escape a string starts with, as json's unquote reads it: how many
\* bytes it takes and the bytes it stands for. A \u escape stands for its
\* code point, a pair of surrogate escapes for the one they form, a lone
\* surrogate for U+FFFD; a backslash and a letter for its character; a byte
\* that starts no rune for U+FFFD; a control character, a quote, an unknown
\* escape and a backslash at the end are Invalid.
Escape(s) ==
  LET c    == s[1]
      u    == GetU4(s)
      u2   == GetU4(Slice(s, 7, Len(s)))
      pair == /\ u >= 55296 /\ u <= 56319 /\ u2 >= 56320 /\ u2 <= 57343
      esc  == IF Len(s) < 2 THEN 0 - 1
              ELSE IF s[2] \in {34, 92, 47} THEN s[2]
              ELSE IF s[2] = 98 THEN 8
              ELSE IF s[2] = 102 THEN 12
              ELSE IF s[2] = 110 THEN 10
              ELSE IF s[2] = 114 THEN 13
              ELSE IF s[2] = 116 THEN 9
              ELSE 0 - 1
  IN  IF c = 92
      THEN (IF u >= 0
            THEN (IF pair
                  THEN [n |-> 12,
                        bytes |-> EncodeRune(65536 + (u - 55296) * 1024
                                               + (u2 - 56320))]
                  ELSE [n |-> 6, bytes |-> EncodeRune(u)])
            ELSE [n |-> 2, bytes |-> IF esc >= 0 THEN <<esc>> ELSE Invalid])
      ELSE IF c < 32 \/ c = 34 THEN [n |-> 1, bytes |-> Invalid]
      ELSE IF c < 128 THEN [n |-> 1, bytes |-> <<c>>]
      ELSE IF RuneLen(s) = 0 THEN [n |-> 1, bytes |-> ReplacementRune]
      ELSE [n |-> RuneLen(s), bytes |-> SubSeq(s, 1, RuneLen(s))]

\* json's unquote on the content of a string (between the quotes): the
\* escapes undone one after the other, Invalid when one of them is.
Unquote(s) ==
  LET rest(t) == SubSeq(t, Escape(t).n + 1, Len(t))
      quoted[t \in Seq(Nat)] ==
        t = <<>> \/ (Escape(t).bytes # Invalid /\ quoted[rest(t)])
      unquoted[t \in Seq(Nat)] ==
        IF t = <<>> THEN <<>> ELSE Escape(t).bytes \o unquoted[rest(t)]
  IN  IF quoted[s] THEN unquoted[s] ELSE Invalid

\* The index of the quote that closes a JSON string whose content starts at
\* index i (a backslash takes the byte after it along), 0 if none does.
StringEnd(b, i) ==
  LET end[j \in Nat] ==
        IF j > Len(b) THEN 0
        ELSE IF b[j] = 34 THEN j
        ELSE IF b[j] = 92 THEN end[j + 2]
        ELSE end[j + 1]
  IN  end[i]

\* The characters of base64.StdEncoding: A-Z, a-z, 0-9, + and /.
B64Char(d) ==
  IF d < 26 THEN 65 + d
  ELSE IF d < 52 THEN 71 + d
  ELSE IF d < 62 THEN d - 4
  ELSE IF d = 62 THEN 43
  ELSE 47

\* The padding character '='.
B64Pad == 61

\* The digit of a character of base64.StdEncoding, -1 for any other byte.
B64Val(c) ==
  IF c >= 65 /\ c <= 90 THEN c - 65
  ELSE IF c >= 97 /\ c <= 122 THEN c - 71
  ELSE IF c >= 48 /\ c <= 57 THEN c + 4
  ELSE IF c = 43 THEN 62
  ELSE IF c = 47 THEN 63
  ELSE 0 - 1

\* encoding/base64: three bytes to four characters, the last group padded.
RECURSIVE Base64Encode(_)
Base64Encode(v) ==
  IF v = <<>> THEN <<>>
  ELSE IF Len(v) = 1
       THEN <<B64Char(v[1] \div 4), B64Char((v[1] % 4) * 16), B64Pad,
              B64Pad>>
  ELSE IF Len(v) = 2
       THEN <<B64Char(v[1] \div 4),
              B64Char((v[1] % 4) * 16 + (v[2] \div 16)),
              B64Char((v[2] % 16) * 4), B64Pad>>
  ELSE <<B64Char(v[1] \div 4), B64Char((v[1] % 4) * 16 + (v[2] \div 16)),
         B64Char((v[2] % 16) * 4 + (v[3] \div 64)), B64Char(v[3] % 64)>>
       \o Base64Encode(SubSeq(v, 4, Len(v)))

\* Whether a string is well-formed base64: groups of four characters of the
\* alphabet, padding only at the end of the last group.
RECURSIVE Base64Valid(_)
Base64Valid(s) ==
  IF s = <<>> THEN TRUE
  ELSE IF Len(s) < 4 THEN FALSE
  ELSE /\ B64Val(s[1]) >= 0 /\ B64Val(s[2]) >= 0
       /\ s[3] = B64Pad \/ B64Val(s[3]) >= 0
       /\ s[4] = B64Pad \/ B64Val(s[4]) >= 0
       /\ (s[3] = B64Pad => s[4] = B64Pad)
       /\ ((s[3] = B64Pad \/ s[4] = B64Pad) => Len(s) = 4)
       /\ Base64Valid(SubSeq(s, 5, Len(s)))

\* The bytes of a well-formed base64 string.
RECURSIVE Base64Decode(_)
Base64Decode(s) ==
  IF s = <<>> THEN <<>>
  ELSE LET d(i) == IF s[i] = B64Pad THEN 0 ELSE B64Val(s[i])
           b1   == d(1) * 4 + (d(2) \div 16)
           b2   == (d(2) % 16) * 16 + (d(3) \div 4)
           b3   == (d(3) % 4) * 64 + d(4)
       IN  IF s[3] = B64Pad THEN <<b1>>
           ELSE IF s[4] = B64Pad THEN <<b1, b2>>
           ELSE <<b1, b2, b3>> \o Base64Decode(SubSeq(s, 5, Len(s)))

\* The bytes of "2024-01-01T", the day of the run.
Date == <<50, 48, 50, 52, 45, 48, 49, 45, 48, 49, 84>>

\* The second of the day at clock 0: 12:00:00.
Noon == 43200

\* A number below 100 as two decimal digits.
TwoDigits(n) == <<48 + (n \div 10), 48 + (n % 10)>>

\* The first n decimal digits of the fraction r / TicksPerSecond, by long
\* division: rem[k] is what is left after k digits.
FracDigits(r, n) ==
  LET rem[k \in Nat] ==
        IF k = 0 THEN r ELSE (rem[k - 1] * 10) % TicksPerSecond
  IN  [i \in 1..n |-> 48 + ((rem[i - 1] * 10) \div TicksPerSecond)]

\* A digit string without the zeros it ends with.
TrimZeros(s) ==
  LET trim[n \in Nat] ==
        IF n > 0 /\ s[n] = 48 THEN trim[n - 1] ELSE SubSeq(s, 1, n)
  IN  trim[Len(s)]

\* The fraction of a second in the layout .999999999, for every number of
\* ticks below a second: nothing when it is zero, else the point and the
\* nanoseconds without trailing zeros.
Fractions ==
  [r \in 0..(TicksPerSecond - 1) |->
     IF r = 0 THEN <<>> ELSE <<46>> \o TrimZeros(FracDigits(r, 9))]

\* The fraction of a second of r ticks, in that layout.
Fraction(r) == Fractions[r]

\* Time.Format(time.RFC3339Nano) of a clock value, in UTC: the day, the
\* time of day, the fraction and Z.
FormatTime(t) ==
  LET sec == Noon + (t \div TicksPerSecond)
  IN  Date \o TwoDigits(sec \div 3600) \o <<58>>
        \o TwoDigits((sec \div 60) % 60) \o <<58>> \o TwoDigits(sec % 60)
        \o Fraction(t % TicksPerSecond) \o <<90>>

\* The zero time.Time (January 1, year 1), before every clock value.
ZeroTime == 0 - 1000000

\* time.Parse(time.RFC3339, s) on a time of the day of the run: the clock
\* value, ZeroTime - 1 when the string is no such time.
ParseTime(s) ==
  LET parse[t \in Seq(Nat)] ==
        LET n     == Len(t)
            digit(i) == t[i] >= 48 /\ t[i] <= 57
            num(i)   == (t[i] - 48) * 10 + (t[i + 1] - 48)
            shape == /\ n >= 20 /\ Slice(t, 1, 11) = Date
                     /\ \A i \in {12, 13, 15, 16, 18, 19} : digit(i)
                     /\ t[14] = 58 /\ t[17] = 58 /\ t[n] = 90
                     /\ num(12) < 24 /\ num(15) < 60 /\ num(18) < 60
            frac  == Slice(t, 20, n - 1)
            ticks == {r \in 0..(TicksPerSecond - 1) : Fraction(r) = frac}
        IN  IF shape /\ ticks # {}
            THEN (num(12) * 3600 + num(15) * 60 + num(18) - Noon)
                   * TicksPerSecond
                   + (CHOOSE r \in ticks : TRUE)
            ELSE ZeroTime - 1
  IN  parse[s]

\* The bytes of {"Expiry":" and of ","Key":" and of ","Value": and of null.
ExpiryName == <<123, 34, 69, 120, 112, 105, 114, 121, 34, 58, 34>>

KeyName == <<34, 44, 34, 75, 101, 121, 34, 58, 34>>

ValueName == <<34, 44, 34, 86, 97, 108, 117, 101, 34, 58>>

Null == <<110, 117, 108, 108>>

\* json.Marshal(Data{...}): the fields in declaration order, the time as a
\* string in RFC 3339, the key as a string, the value null when it is nil
\* and else a string in base64.
Marshal(d) ==
  ExpiryName \o FormatTime(d.Expiry) \o KeyName \o EscapeString(d.Key)
    \o ValueName
    \o (IF d.Value = Nil THEN Null
        ELSE <<34>> \o Base64Encode(d.Value) \o <<34>>)
    \o <<125>>

\* The zero Data.
ZeroData == [Expiry |-> ZeroTime, Key |-> <<>>, Value |-> Nil]

\* json.Unmarshal(bytes, &entry) on bytes that json.Marshal wrote for a
\* Data, whole or in part or one record over another: the entry when the
\* bytes are exactly one record, an error when they are not (empty input, a
\* record cut short, anything after the closing brace). The decoder goes
\* through the bytes once: the end of the time (t2), then of the key (k2),
\* then of the value (v2), then the entry.
unmarshal(b) ==
  LET n  == Len(b)
      t1 == Len(ExpiryName) + 1
      entry[t2 \in Nat, k2 \in Nat, v2 \in Nat] ==
        LET k1   == t2 + Len(KeyName)
            v1   == k2 + Len(ValueName)
            null == Slice(b, v1, v1 + 3) = Null
            time == ParseTime(Slice(b, t1, t2 - 1))
            key  == Unquote(Slice(b, k1, k2 - 1))
            b64  == Slice(b, v1 + 1, v2 - 1)
            ok   == /\ Slice(b, 1, t1 - 1) = ExpiryName
                    /\ t2 > 0 /\ time >= ZeroTime
                    /\ Slice(b, t2, k1 - 1) = KeyName
                    /\ k2 > 0 /\ key # Invalid
                    /\ Slice(b, k2, v1 - 1) = ValueName
                    /\ v2 > 0 /\ (null \/ Base64Valid(b64))
                    /\ v2 + 1 = n /\ b[n] = 125
        IN  IF ok
            THEN [err |-> "nil",
                  data |-> [Expiry |-> time, Key |-> key,
                            Value |-> IF null THEN Nil
                                      ELSE Base64Decode(b64)]]
            ELSE [err |-> "unmarshal", data |-> ZeroData]
      afterKey[t2 \in Nat, k2 \in Nat] ==
        LET v1 == k2 + Len(ValueName)
        IN  entry[t2, k2,
                  IF Slice(b, v1, v1 + 3) = Null THEN v1 + 3
                  ELSE IF v1 <= n /\ b[v1] = 34 THEN StringEnd(b, v1 + 1)
                  ELSE 0]
      afterTime[t2 \in Nat] ==
        afterKey[t2, StringEnd(b, t2 + Len(KeyName))]
  IN  afterTime[StringEnd(b, t1)]

\* What json.Unmarshal makes of the records json.Marshal writes for the
\* entries of the runs, computed once.
Unmarshalled ==
  [b \in {Marshal([Expiry |-> t, Key |-> k, Value |-> v]) :
            t \in (0 - 1)..(MaxClock + 1), k \in AllKeys, v \in NilValues}
     |-> unmarshal(b)]

\* json.Unmarshal(bytes, &entry).
Unmarshal(b) ==
  IF b \in DOMAIN Unmarshalled THEN Unmarshalled[b] ELSE unmarshal(b)

(* ------------------------------ the state ------------------------------ *)

VARIABLES
  now,        \* time.Now(), in ticks
  dirs,       \* the directories that exist, the root apart
  files,      \* the directory: file name -> content (the bytes)
  lost,       \* the content of the files that have no name any more and
              \* are still open, by the number they were given
  proc,       \* per caller: where it is in the operation it runs
  res,        \* the result of the operation that returned last; Pending
              \* once an operation of several steps has started
  hist        \* per key: the last completed change of its entry

vars == <<now, dirs, files, lost, proc, res, hist>>

\* The directory of temporary files, where the cache directory lies.
Tmp == <<"tmp">>

\* The directory of the cache: the dir of the Cache every caller holds.
Dir == <<"tmp", "cache">>

\* Whether the cache directory exists.
dirExists == Dir \in dirs

(* ---------------------------- crypto/sha256 ---------------------------- *)

\* A number of w bits as its bits, the most significant first.
Bits(n, w) == [i \in 1..w |-> (n \div (2 ^ (w - i))) % 2]

\* The number a bit sequence stands for.
RECURSIVE Val(_)
Val(b) ==
  IF b = <<>> THEN 0 ELSE 2 * Val(SubSeq(b, 1, Len(b) - 1)) + b[Len(b)]

\* A uint32 as 32 bits, given its upper and lower 16 bits.
Word(hi, lo) == Bits(hi, 16) \o Bits(lo, 16)

\* The operations on uint32: ^, &, ^0xffffffff, bits.RotateLeft32(a, -n),
\* >> and + (modulo 2^32).
Xor(a, b) == [i \in 1..32 |-> (a[i] + b[i]) % 2]

And(a, b) == [i \in 1..32 |-> a[i] * b[i]]

Not(a) == [i \in 1..32 |-> 1 - a[i]]

RotateRight(a, n) == [i \in 1..32 |-> a[((i - 1 - n + 32) % 32) + 1]]

ShiftRight(a, n) == [i \in 1..32 |-> IF i <= n THEN 0 ELSE a[i - n]]

Add(a, b) ==
  LET lo == Val(SubSeq(a, 17, 32)) + Val(SubSeq(b, 17, 32))
      hi == Val(SubSeq(a, 1, 16)) + Val(SubSeq(b, 1, 16)) + (lo \div 65536)
  IN  Word(hi % 65536, lo % 65536)

\* The round constants _K of sha256block.go, each as <<upper, lower>> half.
K ==
  <<<<17034, 12184>>, <<28983, 17553>>, <<46528, 64463>>, <<59829, 56229>>,
    <<14678, 49755>>, <<23025, 4593>>, <<37439, 33444>>, <<43804, 24277>>,
    <<55303, 43672>>, <<4739, 23297>>, <<9265, 34238>>, <<21772, 32195>>,
    <<29374, 23924>>, <<32990, 45566>>, <<39900, 1703>>, <<49563, 61812>>,
    <<58523, 27073>>, <<61374, 18310>>, <<4033, 40390>>, <<9228, 41420>>,
    <<11753, 11375>>, <<19060, 33962>>, <<23728, 43484>>, <<30457, 35034>>,
    <<38974, 20818>>, <<43057, 50797>>, <<45059, 10184>>, <<48985, 32711>>,
    <<50912, 3059>>, <<54695, 37191>>, <<1738, 25425>>, <<5161, 10599>>,
    <<10167, 2693>>, <<11803, 8504>>, <<19756, 28156>>, <<21304, 3347>>,
    <<25866, 29524>>, <<30314, 2747>>, <<33218, 51502>>, <<37490, 11397>>,
    <<41663, 59553>>, <<43034, 26187>>, <<49739, 35696>>, <<51052, 20899>>,
    <<53650, 59417>>, <<54937, 1572>>, <<62478, 13701>>, <<4202, 41072>>,
    <<6564, 49430>>, <<7735, 27656>>, <<10056, 30540>>, <<13488, 48309>>,
    <<14620, 3251>>, <<20184, 43594>>, <<23452, 51791>>, <<26670, 28659>>,
    <<29839, 33518>>, <<30885, 25455>>, <<33992, 30740>>, <<36039, 520>>,
    <<37054, 65530>>, <<42064, 27883>>, <<48889, 41975>>, <<50801, 30962>>>>

\* The initial hash value init0..init7.
InitH ==
  <<<<27145, 58983>>, <<47975, 44677>>, <<15470, 62322>>, <<42319, 62778>>,
    <<20750, 21119>>, <<39685, 26764>>, <<8067, 55723>>, <<23520, 52505>>>>

\* The padded message: the byte 0x80, zeros up to 56 modulo 64, and the
\* length in bits as 8 bytes, the most significant first.
Padded(msg) ==
  LET n == Len(msg)
  IN  msg \o <<128>> \o [i \in 1..((119 - (n % 64)) % 64) |-> 0]
          \o <<0, 0, 0, 0, (n * 8) \div 16777216,
               ((n * 8) \div 65536) % 256,
               ((n * 8) \div 256) % 256, (n * 8) % 256>>

\* The message schedule of one block: the 16 words of the block, extended to
\* 64 words.
RECURSIVE Schedule(_)
Schedule(w) ==
  IF Len(w) = 64 THEN w
  ELSE LET t  == Len(w) + 1
           v1 == w[t - 2]
           v2 == w[t - 15]
           t1 == Xor(Xor(RotateRight(v1, 17), RotateRight(v1, 19)),
                     ShiftRight(v1, 10))
           t2 == Xor(Xor(RotateRight(v2, 7), RotateRight(v2, 18)),
                     ShiftRight(v2, 3))
       IN  Schedule(Append(w, Add(Add(t1, w[t - 7]), Add(t2, w[t - 16]))))

\* One round of blockGeneric: the working variables a..h after round t.
Round(v, w, t) ==
  LET s1 == Xor(Xor(RotateRight(v[5], 6), RotateRight(v[5], 11)),
                RotateRight(v[5], 25))
      ch == Xor(And(v[5], v[6]), And(Not(v[5]), v[7]))
      t1 == Add(Add(Add(v[8], s1), Add(ch, Word(K[t][1], K[t][2]))), w[t])
      s0 == Xor(Xor(RotateRight(v[1], 2), RotateRight(v[1], 13)),
                RotateRight(v[1], 22))
      mj == Xor(Xor(And(v[1], v[2]), And(v[1], v[3])), And(v[2], v[3]))
  IN  <<Add(t1, Add(s0, mj)), v[1], v[2], v[3], Add(v[4], t1), v[5], v[6],
        v[7]>>

\* The 64 rounds: the working variables before the first round and after
\* each round so far.
RECURSIVE Rounds(_, _)
Rounds(vs, w) ==
  IF Len(vs) = 65 THEN vs[65]
  ELSE Rounds(Append(vs, Round(vs[Len(vs)], w, Len(vs))), w)

\* blockGeneric on one block of 64 bytes: the hash value after it.
Block(hash, p) ==
  LET w == Schedule([j \in 1..16 |->
                       Bits(p[4 * j - 3], 8) \o Bits(p[4 * j - 2], 8)
                         \o Bits(p[4 * j - 1], 8) \o Bits(p[4 * j], 8)])
      r == Rounds(<<hash>>, w)
  IN  [i \in 1..8 |-> Add(hash[i], r[i])]

\* The hash value after every block of a padded message.
RECURSIVE Blocks(_, _)
Blocks(hash, p) ==
  IF p = <<>> THEN hash
  ELSE Blocks(Block(hash, SubSeq(p, 1, 64)), SubSeq(p, 65, Len(p)))

\* The digest computed: the 8 words of the final hash value as 32 bytes.
Checksum(msg) ==
  LET hash == Blocks([i \in 1..8 |-> Word(InitH[i][1], InitH[i][2])],
                     Padded(msg))
  IN  [i \in 1..32 |->
         Val(SubSeq(hash[((i - 1) \div 4) + 1], 8 * ((i - 1) % 4) + 1,
                    8 * ((i - 1) % 4) + 8))]

\* (Mutant of Sum256: a digest that keeps only the length of the key.)
Sum256Weak(key) == <<Len(key)>>

\* sha256.Sum256: the digest of the key bytes, 32 bytes.
Sum256(key) == Checksum(key)

\* The bytes of ".json".
Suffix == <<46, 106, 115, 111, 110>>

\* fmt.Sprintf("%x.json", sum): two digits for each byte, and the suffix.
Sprintf(sum) ==
  [i \in 1..(2 * Len(sum)) |->
     IF i % 2 = 1 THEN HexDigit(sum[(i + 1) \div 2] \div 16)
     ELSE HexDigit(sum[i \div 2] % 16)] \o Suffix

\* The file names of the keys of the runs, computed once.
Filenames == [key \in AllKeys |-> Sprintf(Sum256(key))]

\* Cache.Filename: the file name of a key.
Filename(key) ==
  IF key \in AllKeys THEN Filenames[key] ELSE Sprintf(Sum256(key))

\* The order of two byte strings that agree before index i: the first byte
\* that differs decides, and a proper prefix comes before the longer string.
RECURSIVE CompareFrom(_, _, _)
CompareFrom(a, b, i) ==
  IF i > Len(a) \/ i > Len(b)
  THEN IF Len(a) < Len(b) THEN 0 - 1 ELSE IF Len(a) > Len(b) THEN 1 ELSE 0
  ELSE IF a[i] < b[i] THEN 0 - 1
  ELSE IF a[i] > b[i] THEN 1
  ELSE CompareFrom(a, b, i + 1)

\* strings.Compare: -1, 0 or 1 as a is before, equal to or after b.
Compare(a, b) == IF a = b THEN 0 ELSE CompareFrom(a, b, 1)

\* os.ReadDir returns the entries sorted by file name.
RECURSIVE SortedNames(_)
SortedNames(S) ==
  IF S = {} THEN <<>>
  ELSE LET m == CHOOSE x \in S : \A y \in S : Compare(x, y) <= 0
       IN  <<m>> \o SortedNames(S \ {m})

\* A caller that runs no operation. (op is the operation a caller reads a
\* directory or a file for, fd the name of the file it has open, orph the
\* number of that file if its name was removed, buf the bytes read so far,
\* stale whether the directory it has open was removed. Beside the
\* operation's own variables a caller records what Flush saw in the directory
\* and what it deleted, and the files of the entries Clean found expired and
\* of those it took for deleted; todo holds the names Delete has read and not
\* yet unlinked, dir the directory New is to make and path the directory
\* MkdirAll has come to. Of the goroutines of Clean, pending holds those
\* that have not read the clock, removing those that are to call Remove,
\* sending those that have a failure to send; errs is what the error
\* channel holds and wg the counter of the sync.WaitGroup.)
Idle ==
  [pc |-> "idle", op |-> "none", key |-> <<>>, val |-> <<>>, dur |-> 0,
   at |-> 0, pval |-> <<>>, bytes |-> <<>>, fd |-> <<>>, orph |-> 0,
   buf |-> <<>>, stale |-> FALSE, names |-> <<>>, list |-> <<>>,
   pending |-> {}, errs |-> <<>>, seen |-> {}, gone |-> {}, todo |-> {},
   removing |-> {}, sending |-> {}, wg |-> 0, dir |-> <<>>, path |-> <<>>]

\* No value: what hist holds where there is no earlier Set.
NoVal == <<0 - 1>>

\* The entry of hist for a key never written.
NoHist == [op |-> "none", val |-> <<>>, dur |-> 0, at |-> 0]

\* The entry of hist for a key whose file was deleted.
Gone == [NoHist EXCEPT !.op = "Gone"]

\* The entry of hist for a key while a Set of it is between open and write.
Setting == [NoHist EXCEPT !.op = "Setting"]

\* What an operation returns.
Result(op, key, err, out) == [op |-> op, key |-> key, err |-> err, out |-> out]

\* No result: an operation has started and not returned.
Pending == Result("none", <<>>, "nil", <<>>)

Init ==
  /\ now = 0
  /\ dirs = {Tmp, Dir}
  /\ files = <<>>
  /\ lost = [i \in Callers |-> <<>>]
  /\ proc = [c \in Callers |-> Idle]
  /\ res = Result("New", <<>>, "nil", Dir)
  /\ hist = [k \in AllKeys |-> NoHist]

(* --------------------------- the file system --------------------------- *)

\* (Mutant of Truncated: the open lacks O_TRUNC and keeps an existing file's
\* content.)
OpenedWithoutTrunc(fs, name) ==
  [n \in DOMAIN fs \cup {name} |-> IF n \in DOMAIN fs THEN fs[n] ELSE <<>>]

\* The directory with one more file, empty (or an existing one truncated):
\* os.OpenFile(name, O_WRONLY|O_CREATE|O_TRUNC).
Truncated(fs, name) ==
  [n \in DOMAIN fs \cup {name} |-> IF n = name THEN <<>> ELSE fs[n]]

\* A write of `new` at offset 0 over `old`: what lay beyond stays.
Overlay(old, new) == new \o SubSeq(old, Len(new) + 1, Len(old))

\* (Mutant of Unlinked: the deletion misses its target and removes nothing.)
UnlinkedNothing(fs, gone) == fs

\* The directory without the file named in `gone` (one name at most).
Unlinked(fs, gone) == [n \in DOMAIN fs \ gone |-> fs[n]]

\* The callers that have the file of one of these names open.
Holders(p, names) == {c \in Callers : p[c].fd \in names /\ p[c].orph = 0}

\* The number the next file without a name is given: the least one no caller
\* holds.
FreeNumber(p) ==
  LET free == Callers \ {p[c].orph : c \in Callers}
  IN  CHOOSE i \in free : \A j \in free : i <= j

\* The callers after the file named in `gone` was unlinked: who has it open
\* holds a file without a name from now on.
Orphaned(p, gone) ==
  [c \in Callers |->
     IF c \in Holders(p, gone) THEN [p[c] EXCEPT !.orph = FreeNumber(p)]
     ELSE p[c]]

\* The files without a name after the file named in `gone` was unlinked: its
\* content stays for those who have it open.
Kept(l, p, fs, gone) ==
  IF Holders(p, gone) = {} THEN l
  ELSE [l EXCEPT ![FreeNumber(p)] = fs[CHOOSE n \in gone : TRUE]]

\* The files without a name after a caller has closed its file: the file is
\* gone with its last holder.
Closed(l, p, c) ==
  IF p[c].orph # 0 /\ \A d \in Callers \ {c} : p[d].orph # p[c].orph
  THEN [l EXCEPT ![p[c].orph] = <<>>] ELSE l

\* The content of the file a caller has open.
Content(c) ==
  IF proc[c].orph = 0 THEN files[proc[c].fd] ELSE lost[proc[c].orph]

\* hist after the files named in `gone` were deleted.
Forgotten(h, gone) ==
  [k \in AllKeys |-> IF Filename(k) \in gone THEN Gone ELSE h[k]]

(* ----------------- the operations, run without a break ----------------- *)

\* What readFile returns for a file that is not there.
NotExist == [err |-> "not_exist", data |-> ZeroData]

\* Cache.readFile when no other caller takes a step during it: os.ReadFile,
\* then json.Unmarshal.
readFile(name) ==
  IF ~dirExists \/ name \notin DOMAIN files THEN NotExist
  ELSE Unmarshal(files[name])

\* Cache.Read, likewise.
Read(key) == readFile(Filename(key))

\* (Mutant of Has: the file has to parse as well.)
HasReadable(key) == Read(key).err = "nil"

\* Cache.Has: os.Stat succeeds.
Has(key) == dirExists /\ Filename(key) \in DOMAIN files

\* time.Time.After.
After(t, u) == t > u

\* (Mutant of GetValue: the entry already counts as expired at its expiry.)
GetValueAtExpiry(r, t) ==
  IF r.err # "nil" THEN [err |-> r.err, val |-> Nil]
  ELSE IF t >= r.data.Expiry THEN [err |-> "expired", val |-> Nil]
  ELSE [err |-> "nil", val |-> r.data.Value]

\* Cache.Get after Read has returned r and time.Now() has returned t: the
\* value unless the entry could not be read or has expired.
GetValue(r, t) ==
  IF r.err # "nil" THEN [err |-> r.err, val |-> Nil]
  ELSE IF After(t, r.data.Expiry) THEN [err |-> "expired", val |-> Nil]
  ELSE [err |-> "nil", val |-> r.data.Value]

\* Cache.Get when neither the clock nor another caller takes a step during
\* it.
Get(key) == GetValue(Read(key), now)

\* (Mutant of ExpiryOf: the current time when the entry cannot be read.)
ExpiryOrNow(r) == IF r.err # "nil" THEN now ELSE r.data.Expiry

\* Cache.Expiry after Read has returned r: the zero time when the entry
\* could not be read.
ExpiryOf(r) == IF r.err # "nil" THEN ZeroTime ELSE r.data.Expiry

\* Cache.Expiry, run without a break.
Expiry(key) == ExpiryOf(Read(key))

\* (Mutant of IsExpiredAt: Before in place of After.)
IsExpiredBefore(t, r) == t < ExpiryOf(r)

\* Cache.IsExpired after time.Now() has returned t and Read, called after
\* it, has returned r.
IsExpiredAt(t, r) == After(t, ExpiryOf(r))

\* Cache.IsExpired, run without a break.
IsExpired(key) == IsExpiredAt(now, Read(key))

\* Cache.list, run without a break, after os.ReadDir has returned these
\* names: every file parsed, in os.ReadDir order; the first file that cannot
\* be read or parsed fails the whole listing.
RECURSIVE readAll(_)
readAll(names) ==
  IF names = <<>> THEN [err |-> "nil", list |-> <<>>]
  ELSE LET r == readFile(Head(names))
       IN  IF r.err # "nil" THEN [err |-> r.err, list |-> <<>>]
           ELSE LET rest == readAll(Tail(names))
                IN  IF rest.err # "nil" THEN rest
                    ELSE [err |-> "nil", list |-> <<r.data>> \o rest.list]

\* Cache.list, run without a break.
list ==
  IF ~dirExists THEN [err |-> "readdir", list |-> <<>>]
  ELSE readAll(SortedNames(DOMAIN files))

(* ------------------------------- sorting ------------------------------- *)

\* string(value): the bytes of a slice, none for the nil slice.
String(value) == IF value = Nil THEN <<>> ELSE value

\* The sort options of List.
Options == {"SortByKey", "SortByValue", "SortByExpiry"}

\* (Mutant of Cmp: the comparison of SortByExpiry puts the later expiry
\* first.)
CmpLatestFirst(option, a, b) ==
  IF option = "SortByKey" THEN Compare(a.Key, b.Key)
  ELSE IF option = "SortByValue"
       THEN Compare(String(a.Value), String(b.Value))
  ELSE IF a.Expiry > b.Expiry THEN 0 - 1
  ELSE IF a.Expiry < b.Expiry THEN 1 ELSE 0

\* The comparison function each option hands to slices.SortFunc.
Cmp(option, a, b) ==
  IF option = "SortByKey" THEN Compare(a.Key, b.Key)
  ELSE IF option = "SortByValue"
       THEN Compare(String(a.Value), String(b.Value))
  ELSE IF a.Expiry < b.Expiry THEN 0 - 1
  ELSE IF a.Expiry > b.Expiry THEN 1 ELSE 0

\* slices.SortFunc sorts a slice of at most this length by insertion.
MaxInsertion == 12

\* One turn of the insertion sort: the element x moves left from the end
\* of the sorted part while it compares less than the element before it.
Inserted(sorted, x, option) ==
  LET Stop == {j \in 1..Len(sorted) : ~(Cmp(option, x, sorted[j]) < 0)}
      p    == IF Stop = {} THEN 0
              ELSE CHOOSE j \in Stop : \A k \in Stop : k <= j
  IN  SubSeq(sorted, 1, p) \o <<x>> \o SubSeq(sorted, p + 1, Len(sorted))

\* The insertion sort with its first elements sorted and the rest to come.
RECURSIVE insertionSortFrom(_, _, _)
insertionSortFrom(sorted, rest, option) ==
  IF rest = <<>> THEN sorted
  ELSE insertionSortFrom(Inserted(sorted, Head(rest), option), Tail(rest),
                         option)

\* The insertion sort of slices.SortFunc.
insertionSort(entries, option) == insertionSortFrom(<<>>, entries, option)

\* The orders of a sequence.
RECURSIVE Orders(_)
Orders(s) ==
  IF Len(s) <= 1 THEN {s}
  ELSE UNION {{<<s[i]>> \o t :
                 t \in Orders(SubSeq(s, 1, i - 1) \o SubSeq(s, i + 1, Len(s)))}
              : i \in 1..Len(s)}

\* The orders of a sorted slice that are sorted as well: elements that
\* compare equal stand in any order.
RECURSIVE SortedOrders(_, _)
SortedOrders(sorted, option) ==
  IF sorted = <<>> THEN {<<>>}
  ELSE LET Same == {i \in 1..Len(sorted) :
                      Cmp(option, sorted[i], sorted[1]) = 0}
           k    == Cardinality(Same)
       IN  {first \o rest :
              first \in Orders(SubSeq(sorted, 1, k)),
              rest \in SortedOrders(SubSeq(sorted, k + 1, Len(sorted)),
                                    option)}

\* slices.SortFunc: what the slice can hold afterwards. A slice of at most
\* MaxInsertion elements is sorted by insertion; a longer one goes through
\* the partitioning of pdqsort, which is not guaranteed to be stable: it is
\* sorted, with the elements that compare equal in an order left open.
SortFunc(entries, option) ==
  IF Len(entries) <= MaxInsertion THEN {insertionSort(entries, option)}
  ELSE SortedOrders(insertionSort(entries, option), option)

\* SortByExpiry.
SortByExpiry(entries) == SortFunc(entries, "SortByExpiry")

\* SortByKey.
SortByKey(entries) == SortFunc(entries, "SortByKey")

\* SortByValue.
SortByValue(entries) == SortFunc(entries, "SortByValue")

(* ---------------------------- the operations --------------------------- *)

\* Time passes.
Tick ==
  /\ now < MaxClock
  /\ now' = now + 1
  /\ UNCHANGED <<dirs, files, lost, proc, res, hist>>

\* (Mutant of ValidKey: no validation.)
ValidKeyAny(key) == TRUE

\* Set's validation of the key: len(key) == 0 is rejected.
ValidKey(key) == Len(key) # 0

\* Cache.Set, up to json.Marshal: the key is validated and the record
\* marshalled with Expiry = time.Now().Add(duration).
SetClock(c, key, value, duration) ==
  /\ proc[c].pc = "idle"
  /\ IF ~ValidKey(key)
     THEN /\ res' = Result("Set", key, "empty_key", <<>>)
          /\ UNCHANGED proc
     ELSE /\ proc' = [proc EXCEPT ![c] =
               [Idle EXCEPT !.pc = "set_marshalled", !.op = "Set",
                            !.key = key, !.val = value, !.dur = duration,
                            !.at = now,
                            !.bytes = Marshal([Expiry |-> now + duration,
                                               Key |-> key,
                                               Value |-> value])]]
          /\ res' = Pending
  /\ UNCHANGED <<now, dirs, files, lost, hist>>

\* Cache.Set, the open of os.WriteFile: it creates the file or truncates it,
\* and fails if there is no directory.
SetOpen(c) ==
  /\ proc[c].pc = "set_marshalled"
  /\ IF ~dirExists
     THEN /\ res' = Result("Set", proc[c].key, "not_exist", <<>>)
          /\ proc' = [proc EXCEPT ![c] = Idle]
          /\ UNCHANGED <<files, hist>>
     ELSE /\ files' = Truncated(files, Filename(proc[c].key))
          /\ proc' = [proc EXCEPT ![c] =
               [@ EXCEPT !.pc = "set_opened", !.fd = Filename(proc[c].key),
                         !.pval = IF hist[proc[c].key].op = "Set"
                                  THEN hist[proc[c].key].val ELSE NoVal]]
          /\ hist' = [hist EXCEPT ![proc[c].key] = Setting]
          /\ UNCHANGED res
  /\ UNCHANGED <<now, dirs, lost>>

\* Cache.Set, the write of os.WriteFile: the bytes are written at offset 0
\* of the file that was opened, the file is closed and Set returns. (The
\* result carries, beside the nil error, the value the entry held before
\* this Set, NoVal if it held none.)
SetWrite(c) ==
  /\ proc[c].pc = "set_opened"
  /\ IF proc[c].orph = 0
     THEN /\ files' = [files EXCEPT ![proc[c].fd] =
                         Overlay(@, proc[c].bytes)]
          /\ UNCHANGED lost
     ELSE /\ lost' = Closed([lost EXCEPT ![proc[c].orph] =
                               Overlay(@, proc[c].bytes)], proc, c)
          /\ UNCHANGED files
  /\ proc' = [proc EXCEPT ![c] = Idle]
  /\ res' = Result("Set", proc[c].key, "nil", proc[c].pval)
  /\ hist' = [hist EXCEPT ![proc[c].key] =
       [op |-> "Set", val |-> proc[c].val, dur |-> proc[c].dur,
        at |-> proc[c].at]]
  /\ UNCHANGED <<now, dirs>>

\* The process that runs Set is killed between the open and the write of
\* os.WriteFile: the file stays as the open left it.
Crash(c) ==
  /\ proc[c].pc = "set_opened"
  /\ proc' = [proc EXCEPT ![c] = Idle]
  /\ lost' = Closed(lost, proc, c)
  /\ hist' = [hist EXCEPT ![proc[c].key] = [NoHist EXCEPT !.op = "Torn"]]
  /\ res' = Result("Set", proc[c].key, "killed", <<>>)
  /\ UNCHANGED <<now, dirs, files>>

\* Cache.list and Cache.Clean once list() has read the entries l: the next
\* file is to be opened if there is one; else List returns the listing, and
\* Clean returns nil for an empty listing (no goroutine to wait for) and
\* starts a goroutine for each entry of any other, after wg.Add(1) for each.
\* (p is the caller's state, keep the result that stands while the operation
\* goes on.)
Listed(c, p, l, keep) ==
  IF Len(l) < Len(p.names)
  THEN /\ proc' = [proc EXCEPT ![c] =
            [p EXCEPT !.pc = "open", !.list = l, !.fd = <<>>, !.orph = 0,
                      !.buf = <<>>]]
       /\ res' = keep
  ELSE IF p.op = "List" \/ l = <<>>
  THEN /\ proc' = [proc EXCEPT ![c] = Idle]
       /\ res' = Result(p.op, <<>>, "nil", l)
  ELSE /\ proc' = [proc EXCEPT ![c] =
            [Idle EXCEPT !.pc = "clean", !.op = "Clean", !.list = l,
                         !.at = p.at, !.names = p.names,
                         !.pending = 1..Len(l), !.wg = Len(l)]]
       /\ res' = keep

\* (Mutant of ListFailed: list returns the entries read before the file
\* that failed.)
ListFailedPartial(c, p, r, keep) ==
  /\ proc' = [proc EXCEPT ![c] = Idle]
  /\ res' = Result(p.op, <<>>, r.err, p.list)

\* (Mutant of ListFailed: list passes over a file that cannot be read or
\* parsed, as if the directory did not hold it.)
ListFailedSkipping(c, p, r, keep) ==
  LET i == Len(p.list) + 1
  IN  Listed(c, [p EXCEPT !.names = SubSeq(@, 1, i - 1)
                                      \o SubSeq(@, i + 1, Len(@))],
             p.list, keep)

\* Cache.list when readFile has failed on a file: list returns the error
\* and no entry, and so do List and Clean.
ListFailed(c, p, r, keep) ==
  /\ proc' = [proc EXCEPT ![c] = Idle]
  /\ res' = Result(p.op, <<>>, r.err, <<>>)

\* Cache.readFile has returned r to the operation the caller runs: Read
\* returns it, Expiry and IsExpired return what they make of it, Get
\* returns an error or goes on to read the clock, list returns an error or
\* goes on with the entry.
ReadDone(c, p, r, keep) ==
  IF p.op = "Read"
  THEN /\ proc' = [proc EXCEPT ![c] = Idle]
       /\ res' = Result("Read", p.key, r.err, r.data)
  ELSE IF p.op = "Expiry"
  THEN /\ proc' = [proc EXCEPT ![c] = Idle]
       /\ res' = Result("Expiry", p.key, "nil", ExpiryOf(r))
  ELSE IF p.op = "IsExpired"
  THEN /\ proc' = [proc EXCEPT ![c] = Idle]
       /\ res' = Result("IsExpired", p.key, "nil", IsExpiredAt(p.at, r))
  ELSE IF p.op = "Get"
  THEN IF r.err # "nil"
       THEN /\ proc' = [proc EXCEPT ![c] = Idle]
            /\ res' = Result("Get", p.key, r.err, Nil)
       ELSE /\ proc' = [proc EXCEPT ![c] =
                 [Idle EXCEPT !.pc = "get_clock", !.op = "Get",
                              !.key = p.key, !.list = <<r.data>>]]
            /\ res' = keep
  ELSE IF r.err # "nil" THEN ListFailed(c, p, r, keep)
  ELSE Listed(c, p, Append(p.list, r.data), keep)

\* os.ReadFile, the open: the file is open for reading, or readFile returns
\* the error if it is not there.
Opened(c, p, name, keep) ==
  IF dirExists /\ name \in DOMAIN files
  THEN /\ proc' = [proc EXCEPT ![c] =
            [p EXCEPT !.pc = "read", !.fd = name, !.orph = 0, !.buf = <<>>]]
       /\ res' = keep
  ELSE ReadDone(c, p, NotExist, keep)

\* The file a caller about to call readFile reads: that of the key, or the
\* next of the names of the directory.
NextName(p) ==
  IF p.op \in {"List", "Clean"} THEN p.names[Len(p.list) + 1]
  ELSE Filename(p.key)

\* os.ReadFile, the open, for an operation that has taken a step before (the
\* clock of IsExpired, the directory and the earlier files of list).
ReadFileOpen(c) ==
  /\ proc[c].pc = "open"
  /\ Opened(c, proc[c], NextName(proc[c]), res)
  /\ UNCHANGED <<now, dirs, files, lost, hist>>

\* os.ReadFile, one read: the bytes of the file from the offset reached to
\* its end are appended to the buffer; a read that finds none is the end of
\* the file: the file is closed and json.Unmarshal parses what was read.
ReadFileRead(c) ==
  /\ proc[c].pc = "read"
  /\ LET chunk == SubSeq(Content(c), Len(proc[c].buf) + 1, Len(Content(c)))
     IN  IF chunk # <<>>
         THEN /\ proc' = [proc EXCEPT ![c].buf = @ \o chunk]
              /\ UNCHANGED <<res, lost>>
         ELSE /\ ReadDone(c, proc[c], Unmarshal(proc[c].buf), res)
              /\ lost' = Closed(lost, proc, c)
  /\ UNCHANGED <<now, dirs, files, hist>>

\* Cache.Read, up to the open of os.ReadFile.
DoRead(c, key) ==
  /\ proc[c].pc = "idle"
  /\ Opened(c, [Idle EXCEPT !.op = "Read", !.key = key], Filename(key),
            Pending)
  /\ UNCHANGED <<now, dirs, files, lost, hist>>

\* Cache.Has.
DoHas(c, key) ==
  /\ proc[c].pc = "idle"
  /\ res' = Result("Has", key, "nil", Has(key))
  /\ UNCHANGED <<now, dirs, files, lost, proc, hist>>

\* Cache.Get, up to the open of os.ReadFile.
DoGet(c, key) ==
  /\ proc[c].pc = "idle"
  /\ Opened(c, [Idle EXCEPT !.op = "Get", !.key = key], Filename(key),
            Pending)
  /\ UNCHANGED <<now, dirs, files, lost, hist>>

\* (Mutant of GetClock: Get deletes the file of an entry it finds expired.)
GetClockEvicting(c) ==
  /\ proc[c].pc = "get_clock"
  /\ LET g == GetValue([err |-> "nil", data |-> proc[c].list[1]], now)
     IN  /\ res' = Result("Get", proc[c].key, g.err, g.val)
         /\ files' = IF g.err = "expired"
                     THEN Unlinked(files, {Filename(proc[c].key)})
                     ELSE files
  /\ proc' = [proc EXCEPT ![c] = Idle]
  /\ UNCHANGED <<now, dirs, lost, hist>>

\* Cache.Get, after Read has returned an entry: time.Now() is compared with
\* the expiry and Get returns.
GetClock(c) ==
  /\ proc[c].pc = "get_clock"
  /\ LET g == GetValue([err |-> "nil", data |-> proc[c].list[1]], now)
     IN  res' = Result("Get", proc[c].key, g.err, g.val)
  /\ proc' = [proc EXCEPT ![c] = Idle]
  /\ UNCHANGED <<now, dirs, files, lost, hist>>

\* Cache.Expiry, up to the open of os.ReadFile.
DoExpiry(c, key) ==
  /\ proc[c].pc = "idle"
  /\ Opened(c, [Idle EXCEPT !.op = "Expiry", !.key = key], Filename(key),
            Pending)
  /\ UNCHANGED <<now, dirs, files, lost, hist>>

\* Cache.IsExpired, the receiver of After: time.Now() is evaluated before
\* the argument c.Expiry(key).
DoIsExpired(c, key) ==
  /\ proc[c].pc = "idle"
  /\ proc' = [proc EXCEPT ![c] =
       [Idle EXCEPT !.pc = "open", !.op = "IsExpired", !.key = key,
                    !.at = now]]
  /\ res' = Pending
  /\ UNCHANGED <<now, dirs, files, lost, hist>>

\* A caller that has the directory open holds a directory without a name
\* once the directory is removed: it reads nothing more from it, and what it
\* unlinks there is not in the directory of that name.
Stale(p) ==
  [c \in Callers |->
     IF p[c].pc \in {"dir_opened", "dir_read", "delete"}
     THEN [p[c] EXCEPT !.stale = TRUE] ELSE p[c]]

\* The open of the directory, by os.ReadDir or by os.RemoveAll: if there is
\* no directory os.ReadDir fails and os.RemoveAll has nothing to remove.
DirOpened(c, p, keep) ==
  IF dirExists
  THEN /\ proc' = [proc EXCEPT ![c] =
            [p EXCEPT !.pc = "dir_opened", !.stale = FALSE]]
       /\ res' = keep
  ELSE /\ proc' = [proc EXCEPT ![c] = Idle]
       /\ res' = Result(p.op, <<>>,
                        IF p.op = "Delete" THEN "nil" ELSE "readdir", <<>>)

\* A read of an open directory that has been removed fails (getdents
\* returns ENOENT): os.ReadDir returns the error, and so do list() and
\* Flush; os.RemoveAll takes the directory for removed and returns nil.
DirGone(c) ==
  /\ proc' = [proc EXCEPT ![c] = Idle]
  /\ res' = Result(proc[c].op, <<>>,
                   IF proc[c].op = "Delete" THEN "nil" ELSE "readdir", <<>>)

\* The first read of the open directory (getdents): the names in it.
DirRead(c) ==
  /\ proc[c].pc = "dir_opened"
  /\ IF proc[c].stale
     THEN DirGone(c)
     ELSE /\ proc' = [proc EXCEPT ![c] =
               [@ EXCEPT !.pc = "dir_read", !.seen = DOMAIN files]]
          /\ UNCHANGED res
  /\ UNCHANGED <<now, dirs, files, lost, hist>>

\* The read that finds the end of the directory. Whether it returns a file
\* created since the first read is left open (readdir(3)). os.ReadDir
\* returns the names sorted; list() and Flush then work through them, and
\* os.RemoveAll through the names it read.
DirMore(c) ==
  /\ proc[c].pc = "dir_read"
  /\ IF proc[c].stale
     THEN DirGone(c)
     ELSE \E more \in SUBSET (DOMAIN files \ proc[c].seen) :
       LET all   == proc[c].seen \cup more
           names == SortedNames(all)
       IN  IF proc[c].op = "Flush"
           THEN /\ proc' = [proc EXCEPT ![c] =
                     [Idle EXCEPT !.pc = "flush", !.op = "Flush",
                                  !.names = names, !.seen = all]]
                /\ UNCHANGED res
           ELSE IF proc[c].op = "Delete"
           THEN /\ proc' = [proc EXCEPT ![c] =
                     [Idle EXCEPT !.pc = "delete", !.op = "Delete",
                                  !.todo = all]]
                /\ UNCHANGED res
           ELSE Listed(c, [Idle EXCEPT !.op = proc[c].op, !.names = names,
                                       !.at = proc[c].at], <<>>, res)
  /\ UNCHANGED <<now, dirs, files, lost, hist>>

\* Cache.List with no sort option, up to the open of os.ReadDir.
DoList(c) ==
  /\ proc[c].pc = "idle"
  /\ DirOpened(c, [Idle EXCEPT !.op = "List"], Pending)
  /\ UNCHANGED <<now, dirs, files, lost, hist>>

\* The most sort options one call of List is given.
MaxOptions == 2

\* Cache.List, one turn of the loop over the options: the next option sorts
\* the listing in place. (res holds the options applied so far and the slice
\* List returns if there is no further option; proc[c].list keeps the
\* unsorted listing.)
ListOption(c, option) ==
  /\ proc[c].pc = "list"
  /\ Len(res.key) < MaxOptions
  /\ \E sorted \in (IF option = "SortByKey" THEN SortByKey(res.out)
                     ELSE IF option = "SortByValue" THEN SortByValue(res.out)
                     ELSE SortByExpiry(res.out)) :
       res' = Result("List", Append(res.key, option), "nil", sorted)
  /\ UNCHANGED <<now, dirs, files, lost, proc, hist>>

\* Cache.Remove: os.Remove of the key's file, whatever the key.
Remove(c, key) ==
  /\ proc[c].pc = "idle"
  /\ IF Has(key)
     THEN /\ files' = Unlinked(files, {Filename(key)})
          /\ lost' = Kept(lost, proc, files, {Filename(key)})
          /\ proc' = Orphaned(proc, {Filename(key)})
          /\ hist' = Forgotten(hist, {Filename(key)})
          /\ res' = Result("Remove", key, "nil", <<>>)
     ELSE /\ res' = Result("Remove", key, "not_exist", <<>>)
          /\ UNCHANGED <<files, lost, proc, hist>>
  /\ UNCHANGED <<now, dirs>>

\* A failed deletion, as errors.Join collects it.
Failure(name) == [name |-> name, err |-> "not_exist"]

\* The error of a batch: nil when nothing failed, else the joined failures.
Joined(errs) == IF errs = <<>> THEN "nil" ELSE "joined"

\* Cache.Flush, up to the open of os.ReadDir.
FlushReadDir(c) ==
  /\ proc[c].pc = "idle"
  /\ DirOpened(c, [Idle EXCEPT !.op = "Flush"], Pending)
  /\ UNCHANGED <<now, dirs, files, lost, hist>>

\* The errors of Flush after removeDirEntry on the next name: a failure is
\* joined to the others and the loop goes on.
FlushErrs(errs, name, failed) ==
  IF failed THEN Append(errs, Failure(name)) ELSE errs

\* (Mutant of FlushRest: the loop ends after the first name.)
FlushRestNone(names, failed) == <<>>

\* (Mutant of FlushRest: Flush returns at the first failed deletion.)
FlushRestUntilFailure(names, failed) ==
  IF failed THEN <<>> ELSE Tail(names)

\* The names Flush still has to visit after the next one.
FlushRest(names, failed) == Tail(names)

\* Cache.Flush, one turn of the loop: removeDirEntry on the next name.
FlushRemove(c) ==
  /\ proc[c].pc = "flush"
  /\ proc[c].names # <<>>
  /\ LET name   == Head(proc[c].names)
         failed == ~(dirExists /\ name \in DOMAIN files)
     IN  /\ files' = Unlinked(files, {name})
         /\ lost' = Kept(lost, proc, files, {name})
         /\ hist' = IF failed THEN hist ELSE Forgotten(hist, {name})
         /\ proc' = [Orphaned(proc, {name}) EXCEPT ![c] =
              [@ EXCEPT !.names = FlushRest(proc[c].names, failed),
                        !.errs = FlushErrs(proc[c].errs, name, failed),
                        !.gone = IF failed THEN @ ELSE @ \cup {name}]]
  /\ UNCHANGED <<now, dirs, res>>

\* Cache.Flush, after the loop: the joined errors are returned, nil if none.
FlushReturn(c) ==
  /\ proc[c].pc = "flush"
  /\ proc[c].names = <<>>
  /\ proc' = [proc EXCEPT ![c] = Idle]
  /\ res' = Result("Flush", <<>>, Joined(proc[c].errs), proc[c].errs)
  /\ UNCHANGED <<now, dirs, files, lost, hist>>

\* Cache.Clean, up to the open of os.ReadDir in list(). (The caller keeps
\* the clock value at which Clean was called.)
CleanList(c) ==
  /\ proc[c].pc = "idle"
  /\ DirOpened(c, [Idle EXCEPT !.op = "Clean", !.at = now], Pending)
  /\ UNCHANGED <<now, dirs, files, lost, hist>>

\* Whether a goroutine of Clean leaves the listed entry alone.
CleanSkips(data) == now < data.Expiry

\* (Mutant of ChanCap: the error channel holds one error.)
ChanCapOne(entries) == 1

\* The capacity of the error channel of Clean: make(chan error, len(list)).
ChanCap(entries) == Len(entries)

\* Cache.Clean, the goroutine of one listed entry, time.Now(): it returns
\* (and wg.Done runs) if the entry it was given has not expired, else
\* Remove(data.Key) comes next.
CleanClock(c, i) ==
  /\ i \in proc[c].pending
  /\ proc' = [proc EXCEPT ![c] =
       IF CleanSkips(proc[c].list[i])
       THEN [@ EXCEPT !.pending = @ \ {i}, !.wg = @ - 1]
       ELSE [@ EXCEPT !.pending = @ \ {i}, !.removing = @ \cup {i}]]
  /\ UNCHANGED <<now, dirs, files, lost, res, hist>>

\* Cache.Clean, the goroutine of one listed entry, Remove(data.Key): after
\* a deletion the goroutine returns (and wg.Done runs); after a failure it
\* has the error to send.
CleanRemove(c, i) ==
  /\ i \in proc[c].removing
  /\ LET data   == proc[c].list[i]
         name   == Filename(data.Key)
         failed == ~(dirExists /\ name \in DOMAIN files)
     IN  /\ files' = Unlinked(files, {name})
         /\ lost' = Kept(lost, proc, files, {name})
         /\ hist' = IF failed THEN hist
                    ELSE Forgotten(hist, {name})
         /\ proc' = [Orphaned(proc, {name}) EXCEPT ![c] =
              [@ EXCEPT !.removing = @ \ {i},
                        !.sending = IF failed THEN @ \cup {i} ELSE @,
                        !.wg = IF failed THEN @ ELSE @ - 1,
                        !.seen = @ \cup {proc[c].names[i]},
                        !.gone = IF failed THEN @
                                 ELSE @ \cup {proc[c].names[i]}]]
  /\ UNCHANGED <<now, dirs, res>>

\* Cache.Clean, the goroutine of one listed entry, errorsChan <- err: the
\* send goes through once the channel has room (nothing receives from the
\* channel before wg.Wait returns); the goroutine then returns and wg.Done
\* runs.
CleanSend(c, i) ==
  /\ i \in proc[c].sending
  /\ Len(proc[c].errs) < ChanCap(proc[c].list)
  /\ proc' = [proc EXCEPT ![c] =
       [@ EXCEPT !.sending = @ \ {i}, !.wg = @ - 1,
                 !.errs = Append(@, Failure(Filename(proc[c].list[i].Key)))]]
  /\ UNCHANGED <<now, dirs, files, lost, res, hist>>

\* Cache.Clean, a step of the goroutine of one listed entry.
CleanTask(c, i) == CleanClock(c, i) \/ CleanRemove(c, i) \/ CleanSend(c, i)

\* Cache.Clean, after wg.Wait(), which returns once the counter is zero:
\* the channel is closed and drained, and the joined errors are returned.
\* (The return ends no goroutine: what is left of them stays.)
CleanReturn(c) ==
  /\ proc[c].pc = "clean"
  /\ proc[c].wg = 0
  /\ proc' = [proc EXCEPT ![c] =
       [Idle EXCEPT !.pending = proc[c].pending,
                    !.removing = proc[c].removing,
                    !.sending = proc[c].sending]]
  /\ res' = Result("Clean", <<>>, Joined(proc[c].errs), proc[c].errs)
  /\ UNCHANGED <<now, dirs, files, lost, hist>>

\* The directory a path lies in.
Parent(path) == SubSeq(path, 1, Len(path) - 1)

\* Cache.Delete, the simple case of os.RemoveAll: os.Remove removes the
\* directory if it is empty, and RemoveAll returns nil; so it does if
\* there is no directory. Else RemoveAll goes on to empty the directory.
DeleteRemove(c) ==
  /\ proc[c].pc = "idle"
  /\ IF dirExists /\ files # <<>>
     THEN /\ proc' = [proc EXCEPT ![c] =
               [Idle EXCEPT !.pc = "delete_open", !.op = "Delete"]]
          /\ res' = Pending
          /\ UNCHANGED dirs
     ELSE /\ dirs' = dirs \ {Dir}
          /\ proc' = IF dirExists THEN Stale(proc) ELSE proc
          /\ res' = Result("Delete", <<>>, "nil", <<>>)
  /\ UNCHANGED <<now, files, lost, hist>>

\* Cache.Delete, removeAllFrom: the directory is opened; if there is no
\* directory any more RemoveAll returns nil.
DeleteOpen(c) ==
  /\ proc[c].pc = "delete_open"
  /\ DirOpened(c, proc[c], res)
  /\ UNCHANGED <<now, dirs, files, lost, hist>>

\* Cache.Delete, removeAllFrom on one of the names read (in the order of
\* the directory, which is any order): the file is unlinked; a file that
\* is no longer there is passed over.
DeleteUnlink(c) ==
  /\ proc[c].pc = "delete"
  /\ \E name \in proc[c].todo :
       LET there == ~proc[c].stale /\ name \in DOMAIN files
           gone  == IF there THEN {name} ELSE {}
       IN  /\ files' = Unlinked(files, gone)
           /\ lost' = Kept(lost, proc, files, gone)
           /\ hist' = Forgotten(hist, gone)
           /\ proc' = [Orphaned(proc, gone) EXCEPT ![c].todo = @ \ {name}]
  /\ UNCHANGED <<now, dirs, res>>

\* (Mutant of DeleteRmdir: the directory is left in place.)
DeleteRmdirKeepingDir(c) ==
  /\ proc[c].pc = "delete"
  /\ proc[c].todo = {}
  /\ proc' = [proc EXCEPT ![c] = Idle]
  /\ res' = Result("Delete", <<>>, "nil", <<>>)
  /\ UNCHANGED <<now, dirs, files, lost, hist>>

\* Cache.Delete, the end of removeAllFrom: the directory itself is removed.
\* RemoveAll returns nil if that succeeds or there is no directory to
\* remove, and the error of unlinkat if the directory is not empty (a file
\* was created in it after the names were read).
DeleteRmdir(c) ==
  /\ proc[c].pc = "delete"
  /\ proc[c].todo = {}
  /\ IF dirExists /\ files # <<>>
     THEN /\ proc' = [proc EXCEPT ![c] = Idle]
          /\ res' = Result("Delete", <<>>, "not_empty", <<>>)
          /\ UNCHANGED dirs
     ELSE /\ dirs' = dirs \ {Dir}
          /\ proc' = [(IF dirExists THEN Stale(proc) ELSE proc)
                        EXCEPT ![c] = Idle]
          /\ res' = Result("Delete", <<>>, "nil", <<>>)
  /\ UNCHANGED <<now, files, lost, hist>>

\* Cache.Delete: the steps of os.RemoveAll that are its own.
Delete(c) ==
  \/ DeleteRemove(c)
  \/ DeleteOpen(c)
  \/ DeleteUnlink(c)
  \/ DeleteRmdir(c)

\* A name no directory can have (longer than the file system allows).
BadName == "bad"

\* os.Mkdir: the directory is created if its parent exists and can be
\* written (the root, which is no member of fs, cannot) and its name is
\* one a directory can have.
Mkdir(fs, path) ==
  IF path \notin fs /\ Parent(path) \in fs /\ path[Len(path)] # BadName
  THEN [err |-> "nil", dirs |-> fs \cup {path}]
  ELSE [err |-> "mkdir", dirs |-> fs]

\* os.MkdirAll when no other caller takes a step during it: nothing to do
\* for a directory that exists; else the parent is made first, with its
\* parents, and then the directory itself. What was made stays when a later
\* Mkdir fails.
RECURSIVE MkdirAll(_, _)
MkdirAll(fs, path) ==
  IF path \in fs \/ path = <<>> THEN [err |-> "nil", dirs |-> fs]
  ELSE LET up == MkdirAll(fs, Parent(path))
       IN  IF up.err # "nil" THEN up ELSE Mkdir(up.dirs, path)

\* os.MkdirAll once the directory `path` is known to exist: MkdirAll of the
\* directory asked for returns nil; that of a parent has the caller make the
\* next directory on the way down.
Made(c, p, path, keep) ==
  IF path = p.dir
  THEN /\ proc' = [proc EXCEPT ![c] = Idle]
       /\ res' = Result("New", <<>>, "nil", p.dir)
  ELSE /\ proc' = [proc EXCEPT ![c] =
            [p EXCEPT !.pc = "new_mkdir",
                      !.path = SubSeq(p.dir, 1, Len(path) + 1)]]
       /\ res' = keep

\* os.MkdirAll, os.Stat of the directory: a directory that exists is made;
\* for one that does not MkdirAll is called on its parent, if it has one
\* that is not the root, and else os.Mkdir comes next.
Statted(c, p, path, keep) ==
  IF path \in dirs THEN Made(c, p, path, keep)
  ELSE /\ proc' = [proc EXCEPT ![c] =
            IF Len(path) > 1
            THEN [p EXCEPT !.pc = "new_stat", !.path = Parent(path)]
            ELSE [p EXCEPT !.pc = "new_mkdir", !.path = path]]
       /\ res' = keep

\* New, up to the first os.Stat of os.MkdirAll: the empty path is rejected.
\* (The result carries the path.)
New(c, dir) ==
  /\ proc[c].pc = "idle"
  /\ IF Len(dir) = 0
     THEN /\ res' = Result("New", <<>>, "empty_dir", dir)
          /\ UNCHANGED proc
     ELSE Statted(c, [Idle EXCEPT !.op = "New", !.dir = dir], dir, Pending)
  /\ UNCHANGED <<now, dirs, files, lost, hist>>

\* os.MkdirAll on a parent, os.Stat.
NewStat(c) ==
  /\ proc[c].pc = "new_stat"
  /\ Statted(c, proc[c], proc[c].path, res)
  /\ UNCHANGED <<now, dirs, files, lost, hist>>

\* os.MkdirAll, os.Mkdir of the directory it has come to: if that fails
\* os.Lstat comes next.
NewMkdir(c) ==
  /\ proc[c].pc = "new_mkdir"
  /\ LET made == Mkdir(dirs, proc[c].path)
     IN  IF made.err = "nil"
         THEN /\ dirs' = made.dirs
              /\ Made(c, proc[c], proc[c].path, res)
         ELSE /\ proc' = [proc EXCEPT ![c].pc = "new_lstat"]
              /\ UNCHANGED <<dirs, res>>
  /\ UNCHANGED <<now, files, lost, hist>>

\* os.MkdirAll, os.Lstat after os.Mkdir has failed: a directory that is
\* there is as good as made; else the error of os.Mkdir is returned.
NewLstat(c) ==
  /\ proc[c].pc = "new_lstat"
  /\ IF proc[c].path \in dirs
     THEN Made(c, proc[c], proc[c].path, res)
     ELSE /\ proc' = [proc EXCEPT ![c] = Idle]
          /\ res' = Result("New", <<>>, "mkdir", proc[c].dir)
  /\ UNCHANGED <<now, dirs, files, lost, hist>>

(* --------------------------- specifications ---------------------------- *)

\* The paths one caller calls New with: the cache directory and a path
\* below the root, where nothing can be created.
NewPaths == {Dir, <<"invalid", "path">>}

\* The key a nil value is put under (one key, to keep the state space
\* small).
NilKey == <<97>>

\* What one caller can do.
Step(c) ==
  \/ \E k \in Keys, v \in NilValues, d \in Durations :
       (v = Nil => k = NilKey) /\ SetClock(c, k, v, d)
  \/ SetOpen(c)
  \/ SetWrite(c)
  \/ Crash(c)
  \/ \E k \in Keys : DoRead(c, k)
  \/ \E k \in Keys : DoHas(c, k)
  \/ \E k \in Keys : DoGet(c, k)
  \/ GetClock(c)
  \/ \E k \in Keys : DoExpiry(c, k)
  \/ \E k \in Keys : DoIsExpired(c, k)
  \/ ReadFileOpen(c)
  \/ ReadFileRead(c)
  \/ \E k \in Keys : Remove(c, k)
  \/ DoList(c)
  \/ DirRead(c)
  \/ DirMore(c)
  \/ FlushReadDir(c)
  \/ FlushRemove(c)
  \/ FlushReturn(c)
  \/ CleanList(c)
  \/ \E i \in 1..Cardinality(Keys) : CleanTask(c, i)
  \/ CleanReturn(c)
  \/ Delete(c)
  \/ \E dir \in NewPaths : New(c, dir)
  \/ NewStat(c)
  \/ NewMkdir(c)
  \/ NewLstat(c)

\* One caller: every operation runs to its end before the next starts.
Next == Tick \/ Step(1)

Spec == Init /\ [][Next]_vars

\* The key the parallel Puts write.
PutKey == <<97>>

\* Callers that Put the same key in parallel, and read it.
PutStep(c) ==
  \/ \E v \in NilValues, d \in Durations : SetClock(c, PutKey, v, d)
  \/ SetOpen(c)
  \/ SetWrite(c)
  \/ DoRead(c, PutKey)
  \/ ReadFileRead(c)

NextPut == Tick \/ \E c \in Callers : PutStep(c)

SpecPut == Init /\ [][NextPut]_vars

\* The key each caller works on when the callers work on different keys.
KeyOf == <<<<97>>, <<255>>>>

\* The value the callers put when they work on different keys.
KeyValue == <<255>>

\* Callers that Put, Get and Remove in parallel, each its own key.
KeyStep(c) ==
  \/ \E d \in Durations : SetClock(c, KeyOf[c], KeyValue, d)
  \/ SetOpen(c)
  \/ SetWrite(c)
  \/ DoGet(c, KeyOf[c])
  \/ ReadFileRead(c)
  \/ GetClock(c)
  \/ Remove(c, KeyOf[c])

NextKeys == Tick \/ \E c \in Callers : KeyStep(c)

SpecKeys == Init /\ [][NextKeys]_vars

\* Callers that Put, Remove and Flush in parallel.
FlushStep(c) ==
  \/ \E k \in Keys : SetClock(c, k, <<>>, 1)
  \/ SetOpen(c)
  \/ SetWrite(c)
  \/ \E k \in Keys : Remove(c, k)
  \/ FlushReadDir(c)
  \/ DirRead(c)
  \/ DirMore(c)
  \/ FlushRemove(c)
  \/ FlushReturn(c)

NextFlush == \E c \in Callers : FlushStep(c)

SpecFlush == Init /\ [][NextFlush]_vars

\* One caller that Puts, Removes and lists, and nothing else.
NextEntries ==
  \/ Tick
  \/ \E k \in Keys, v \in NilValues, d \in Durations : SetClock(1, k, v, d)
  \/ SetOpen(1)
  \/ SetWrite(1)
  \/ \E k \in Keys : Remove(1, k)
  \/ DoList(1)
  \/ DirRead(1)
  \/ DirMore(1)
  \/ ReadFileOpen(1)
  \/ ReadFileRead(1)

SpecEntries == Init /\ [][NextEntries]_vars

\* The steps of Clean and of its goroutines, the send of a failure apart.
CleanerStep(c) ==
  \/ CleanList(c)
  \/ DirRead(c)
  \/ DirMore(c)
  \/ ReadFileOpen(c)
  \/ ReadFileRead(c)
  \/ \E i \in 1..Cardinality(TaskKeys) : CleanClock(c, i)
  \/ \E i \in 1..Cardinality(TaskKeys) : CleanRemove(c, i)
  \/ CleanReturn(c)

\* The send of a goroutine of Clean whose Remove has failed.
SenderStep(c) == \E i \in 1..Cardinality(TaskKeys) : CleanSend(c, i)

\* One caller that Puts the keys of CleanKeys, lists and cleans.
NextClean ==
  \/ Tick
  \/ \E k \in CleanKeys, d \in Durations : SetClock(1, k, <<>>, d)
  \/ SetOpen(1)
  \/ SetWrite(1)
  \/ DoList(1)
  \/ CleanerStep(1)
  \/ SenderStep(1)

SpecClean == Init /\ [][NextClean]_vars

\* One caller that Puts the keys of TaskKeys and cleans, at one clock
\* value: a Clean of up to three entries, expired or not, of which up to two
\* have their deletion fail.
NextTasks ==
  \/ \E k \in TaskKeys, d \in Durations : SetClock(1, k, <<>>, d)
  \/ SetOpen(1)
  \/ SetWrite(1)
  \/ CleanerStep(1)
  \/ SenderStep(1)

\* Clean and its goroutines are scheduled: a step of Clean that can be
\* taken is taken, a goroutine that can run does run, and Clean returns once
\* wg.Wait lets it.
CleanFairness == WF_vars(CleanerStep(1) \/ SenderStep(1))

SpecCleanLive == Init /\ [][NextTasks]_vars /\ CleanFairness

\* One caller that Puts one key, asks whether it has expired, and cleans.
\* (No deletion fails: nothing else deletes the file, so no goroutine has a
\* failure to send.)
NextBoundary ==
  \/ Tick
  \/ \E v \in Values, d \in Durations : SetClock(1, PutKey, v, d)
  \/ SetOpen(1)
  \/ SetWrite(1)
  \/ DoGet(1, PutKey)
  \/ GetClock(1)
  \/ DoIsExpired(1, PutKey)
  \/ CleanerStep(1)

SpecBoundary == Init /\ [][NextBoundary]_vars

\* The paths New is called with: the empty path, the cache directory, a
\* path below the root, where nothing can be created, and a path whose
\* parent can be created though the directory itself cannot.
OpenPaths == {<<>>, Dir, <<"invalid", "path">>, <<"tmp", "new", BadName>>}

\* A caller that Puts one key through its handle.
PutterStep(c) ==
  \/ \E v \in Values, d \in Durations : SetClock(c, PutKey, v, d)
  \/ SetOpen(c)
  \/ SetWrite(c)

\* A caller that opens the store, deletes it, and reads through its handle.
OpenerStep(c) ==
  \/ \E dir \in OpenPaths : New(c, dir)
  \/ NewStat(c)
  \/ NewMkdir(c)
  \/ NewLstat(c)
  \/ Delete(c)
  \/ DoGet(c, PutKey)
  \/ GetClock(c)
  \/ DoList(c)
  \/ DirRead(c)
  \/ DirMore(c)
  \/ ReadFileOpen(c)
  \/ ReadFileRead(c)

\* One caller Puts and lists while the other opens, deletes and reads: the
\* directory can be removed while the first has it open.
NextOpen ==
  \/ Tick
  \/ PutterStep(1)
  \/ DoList(1)
  \/ DirRead(1)
  \/ DirMore(1)
  \/ ReadFileOpen(1)
  \/ ReadFileRead(1)
  \/ OpenerStep(2)

SpecOpen == Init /\ [][NextOpen]_vars

\* One caller cleans while another Puts one key. (No deletion fails: the
\* one file is deleted by one goroutine at most.)
NextRace == Tick \/ CleanerStep(1) \/ PutterStep(2)

SpecRace == Init /\ [][NextRace]_vars

\* A caller that reads one key and lists.
ReaderStep(c) ==
  \/ DoGet(c, PutKey)
  \/ GetClock(c)
  \/ DoRead(c, PutKey)
  \/ DoList(c)
  \/ DirRead(c)
  \/ DirMore(c)
  \/ ReadFileOpen(c)
  \/ ReadFileRead(c)

\* One caller reads while another Puts the key.
NextOverwrite == Tick \/ PutterStep(1) \/ ReaderStep(2)

SpecOverwrite == Init /\ [][NextOverwrite]_vars

\* The entries of the short listings List sorts.
SortEntries ==
  [Expiry : {0, 1}, Key : {<<97>>, <<97, 97>>, <<98>>},
   Value : {<<>>, <<255>>}]

\* The most entries of a short listing.
MaxEntries == 3

\* The short listings: entries of different keys in any order (the order
\* of the file names, which are digests of the keys).
ShortListings ==
  {l \in UNION {[1..n -> SortEntries] : n \in 0..MaxEntries} :
     \A i, j \in 1..Len(l) : l[i].Key = l[j].Key => i = j}

\* The length of the long listings: the shortest slice slices.SortFunc does
\* not sort by insertion.
LongLen == MaxInsertion + 1

\* A long listing in the order of its keys, the values in the opposite
\* order: the expiries are 1..MaxInsertion in ascending order with the
\* expiry d twice, rotated left by r entries.
LongListing(d, r) ==
  [i \in 1..LongLen |->
     LET j == ((i - 1 + r) % LongLen) + 1
     IN  [Expiry |-> IF j <= d THEN j ELSE j - 1,
          Key |-> <<96 + i>>, Value |-> <<110 - i>>]]

\* The long listings.
LongListings ==
  {LongListing(d, r) : d \in 1..MaxInsertion, r \in 0..MaxInsertion}

\* List has read the directory into a listing and has its options to apply.
InitSort ==
  /\ now = 0
  /\ dirs = {Tmp, Dir}
  /\ files = <<>>
  /\ lost = [i \in Callers |-> <<>>]
  /\ hist = [k \in AllKeys |-> NoHist]
  /\ \E l \in ShortListings \cup LongListings :
       /\ proc = [c \in Callers |->
                    IF c = 1 THEN [Idle EXCEPT !.pc = "list", !.op = "List", !.list = l]
                    ELSE Idle]
       /\ res = Result("List", <<>>, "nil", l)

NextSort == \E option \in Options : ListOption(1, option)

SpecSort == InitSort /\ [][NextSort]_vars

(* ------------------------------ the claims ----------------------------- *)

\* The record of key k as its last completed Set gave it to json.Marshal:
\* the key itself, the value, and the expiry.
Original(k) ==
  [Expiry |-> hist[k].at + hist[k].dur, Key |-> k, Value |-> hist[k].val]

\* The record a reader gets back for it: the key is the one json.Marshal
\* wrote and json.Unmarshal reads.
Asked(k) == [Original(k) EXCEPT !.Key = Unquote(EscapeString(k))]

\* C1: after a successful Put(k, v, d) with d > 0, with nothing done to k's
\* entry since and the clock not past put-time + d, Get(k) returns exactly v
\* and no error.
C1_RoundTrip ==
  /\ \A k \in Keys :
       (hist[k].op = "Set" /\ hist[k].dur > 0
          /\ now <= hist[k].at + hist[k].dur)
         => Get(k) = [err |-> "nil", val |-> hist[k].val]
  /\ (res.op = "Get" /\ hist[res.key].op = "Set" /\ hist[res.key].dur > 0
        /\ now <= hist[res.key].at + hist[res.key].dur)
       => (res.err = "nil" /\ res.out = hist[res.key].val)

\* C1 witness: a Get has returned the non-empty value of a Put with positive
\* ttl, at the last clock value the entry is valid.
C1_Witness ==
  /\ res.op = "Get" /\ res.err = "nil"
  /\ hist[res.key].op = "Set" /\ hist[res.key].dur > 0
  /\ now = hist[res.key].at + hist[res.key].dur
  /\ res.out = hist[res.key].val /\ res.out # <<>>

\* C2: after Put(k, v, d) with d < 0, Get(k) fails with the expired error and
\* IsExpired(k) is true, at every clock value until k's entry is changed.
\* (Get(k) and IsExpired(k) are taken from one reading r of the file.)
C2_NegativeTtlExpired ==
  \A k \in Keys :
    (hist[k].op = "Set" /\ hist[k].dur < 0)
      => LET r == Read(k)
         IN  /\ GetValue(r, now) = [err |-> "expired", val |-> Nil]
             /\ IsExpiredAt(now, r)
             /\ (res.op = "Get" /\ res.key = k) => res.err = "expired"
             /\ (res.op = "IsExpired" /\ res.key = k) => res.out = TRUE

\* C2 witness: at a later clock value, a Get of an entry put with negative
\* ttl has failed with the expired error.
C2_Witness ==
  /\ res.op = "Get" /\ res.err = "expired"
  /\ hist[res.key].op = "Set" /\ hist[res.key].dur < 0
  /\ now > hist[res.key].at
  /\ IsExpired(res.key)

\* C3: after a Put of k, a later one in particular, Read(k) returns the value
\* and expiry of that Put and nothing else, Get(k) returns its value while it
\* is unexpired, and the directory holds one file per key put and no other.
\* (Get(k) is taken from the reading r of the file that Read(k) is.)
C3_Overwrite ==
  /\ \A k \in Keys :
       hist[k].op = "Set"
         => LET r == Read(k)
            IN  /\ r = [err |-> "nil", data |-> Asked(k)]
                /\ files[Filename(k)] = Marshal(Original(k))
                /\ (now <= hist[k].at + hist[k].dur
                      => GetValue(r, now).val = hist[k].val)
  /\ DOMAIN files
       = {Filename(k) : k \in {x \in Keys :
                                 hist[x].op \in {"Set", "Setting", "Torn"}}}

\* C3 witness: a second Put has replaced an entry that held another, longer
\* value, and Read returns the second value.
C3_Witness ==
  /\ res.op = "Set" /\ res.err = "nil"
  /\ res.out # NoVal /\ Len(res.out) > Len(hist[res.key].val)
  /\ hist[res.key].op = "Set"
  /\ Read(res.key).data.Value = hist[res.key].val

\* The files of the keys other than k are the same after the step.
OtherFilesUnchanged(k) ==
  \A n \in DOMAIN files \ {Filename(k)} :
    n \in DOMAIN files' /\ files'[n] = files[n]

\* C4: once k's file is deleted, Get(k) and Read(k) fail with the not-found
\* error and Has(k) is false until k is Put again; and Remove(k) leaves the
\* files of all other keys as they were.
C4_RemoveThenNotFound ==
  /\ [](\A k \in Keys :
          hist[k].op = "Gone"
            => /\ Get(k).err = "not_exist"
               /\ Read(k).err = "not_exist"
               /\ ~Has(k)
               /\ (res.op \in {"Get", "Read"} /\ res.key = k)
                    => res.err = "not_exist")
  /\ [][\A c \in Callers, k \in Keys :
          Remove(c, k) => OtherFilesUnchanged(k)]_vars

\* C4 witness: Remove(k) has succeeded while another key's entry exists.
C4_Witness ==
  /\ res.op = "Remove" /\ res.err = "nil"
  /\ hist[res.key].op = "Gone"
  /\ \E k \in Keys : k # res.key /\ hist[k].op = "Set" /\ Has(k)

\* C5: the file named after the hash of the empty key never exists; Put(""),
\* Get("") and Remove("") return an error, and none of them creates, changes
\* or deletes a file.
C5_EmptyKeyRejected ==
  /\ [](/\ Filename(<<>>) \notin DOMAIN files
        /\ Get(<<>>).err # "nil"
        /\ (res.op \in {"Set", "Get", "Remove"} /\ res.key = <<>>
              => res.err # "nil"))
  /\ [][\A c \in Callers :
          (\/ \E v \in Values, d \in Durations : SetClock(c, <<>>, v, d)
           \/ DoGet(c, <<>>)
           \/ Remove(c, <<>>))
            => files' = files]_vars

\* C5 witness: Remove("") has returned an error while the directory holds an
\* entry.
C5_Witness ==
  /\ res.op = "Remove" /\ res.key = <<>> /\ res.err # "nil"
  /\ \E k \in Keys : hist[k].op = "Set" /\ Has(k)

\* Whether an entry's expiry has passed at clock value t (as Get decides it).
Passed(data, t) == t > data.Expiry

\* The entries of a listing whose expiry has not passed at clock value t.
Unexpired(entries, t) ==
  LET Keep(d) == ~Passed(d, t) IN SelectSeq(entries, Keep)

\* C6: a Clean that runs alone at one clock value with no failed deletion
\* leaves exactly the entries whose expiry had not passed, unchanged.
C6_CleanKeepsUnexpired ==
  [][\A c \in Callers :
       (CleanReturn(c) /\ proc[c].errs = <<>> /\ now = proc[c].at)
         => list = [err |-> "nil",
                    list |-> Unexpired(proc[c].list, proc[c].at)]]_vars

\* No Set of key k is under way.
Quiet(k) == \A c \in Callers : ~(proc[c].op = "Set" /\ proc[c].key = k)

\* C7: once all parallel Puts of a key have returned, its file parses as the
\* complete record of the Put that returned last.
C7_ParallelPutsConsistent ==
  \A k \in Keys :
    (Quiet(k) /\ hist[k].op = "Set")
      => Read(k) = [err |-> "nil", data |-> Asked(k)]

\* What the directory holds for key k: its file's content, or nothing.
FileOf(k) == IF Has(k) THEN <<files[Filename(k)]>> ELSE <<>>

\* Caller c takes a step of a Put, Get or Remove of key k.
StepOn(c, k) ==
  \/ \E v \in Values, d \in Durations : SetClock(c, k, v, d)
  \/ proc[c].key = k /\ (SetOpen(c) \/ SetWrite(c))
  \/ DoGet(c, k)
  \/ proc[c].key = k /\ (ReadFileRead(c) \/ GetClock(c))
  \/ Remove(c, k)

\* C8: distinct keys have distinct files, and a step of a Put, Get or Remove
\* of one key leaves the file of every other key (so what Read, Get and Has
\* return for it, which depends on that file, the clock and the directory
\* alone) and the operations the other callers run as they were.
C8_KeysDoNotInterfere ==
  /\ [](\A k1 \in Keys, k2 \in Keys :
          k1 # k2 => Filename(k1) # Filename(k2))
  /\ [][\A c \in Callers, k \in Keys :
          \/ /\ \A k2 \in Keys \ {k} : FileOf(k2)' = FileOf(k2)
             /\ \A c2 \in Callers \ {c} : proc'[c2] = proc[c2]
             /\ now' = now /\ dirExists' = dirExists
          \/ ~StepOn(c, k)]_vars

\* C8 witness: a Get of one key has returned its value while a Put of another
\* key is between its open and its write.
C8_Witness ==
  /\ res.op = "Get" /\ res.err = "nil" /\ res.out # <<>>
  /\ \E c \in Callers :
       /\ proc[c].pc = "set_opened" /\ proc[c].key # res.key
       /\ Has(proc[c].key) /\ Has(res.key)

\* C9: a Flush that has returned on an existing directory returned no error
\* and left the directory existing and empty, so that List returns the empty
\* sequence and no error.
C9_FlushEmpties ==
  (res.op = "Flush" /\ dirExists)
    => /\ res.err = "nil"
       /\ DOMAIN files = {}
       /\ list = [err |-> "nil", list |-> <<>>]

\* C9 witness: Flush has returned after deleting the files of two keys.
C9_Witness ==
  /\ res.op = "Flush" /\ res.err = "nil" /\ dirExists
  /\ Cardinality({k \in Keys : hist[k].op = "Gone"}) >= 2
  /\ list.list = <<>>

\* The names in the failures a Flush collected.
FailedNames(errs) == {errs[i].name : i \in 1..Len(errs)}

\* C10: when Flush returns, every file it saw in the directory was either
\* deleted by it or is reported in the returned error, once, and no deleted
\* file is reported; the error is nil only if no deletion failed.
C10_FlushJoinsFailures ==
  [][\A c \in Callers :
       FlushReturn(c)
         => LET errs == res'.out
            IN  /\ res'.op = "Flush"
                /\ FailedNames(errs) \cup proc[c].gone = proc[c].seen
                /\ FailedNames(errs) \cap proc[c].gone = {}
                /\ Len(errs) = Cardinality(FailedNames(errs))
                /\ (res'.err = "nil" <=> errs = <<>>)]_vars

\* C10 witness: a Flush whose deletion of one file failed has gone on to
\* delete a file that comes later in the directory.
C10_Witness ==
  \E c \in Callers :
    /\ proc[c].pc = "flush" /\ proc[c].errs # <<>>
    /\ \E n \in proc[c].gone : Compare(n, proc[c].errs[1].name) > 0

\* C11: Clean merges every deletion failure: when Clean returns, every
\* entry it found expired either was deleted (its file is gone) or has its
\* failure in the returned error, one failure for each; and Clean returns
\* no error exactly when no deletion failed.
C11_CleanMergesFailures ==
  [][\A c \in Callers :
       CleanReturn(c) =>
         /\ \A n \in proc[c].gone : n \notin DOMAIN files
         /\ Len(proc[c].errs) =
              Cardinality(proc[c].seen) - Cardinality(proc[c].gone)
         /\ res'.out = proc[c].errs
         /\ (res'.err = "nil") <=> (proc[c].gone = proc[c].seen)]_vars

\* The files of the directory that do not parse.
BadFiles == {n \in DOMAIN files : Unmarshal(files[n]).err # "nil"}

\* C12: List is all-or-nothing: if any file of the directory fails to parse,
\* List returns an error and no entry, wherever the bad file stands among
\* the others; if every file parses, List returns no error and one entry per
\* file, the parsed content of that file.
C12_ListAllOrNothing ==
  (res.op = "List" /\ dirExists) =>
    LET names == SortedNames(DOMAIN files)
    IN  /\ BadFiles # {} => (res.err = "unmarshal" /\ res.out = <<>>)
        /\ BadFiles = {} =>
             /\ res.err = "nil"
             /\ Len(res.out) = Cardinality(DOMAIN files)
             /\ \A i \in 1..Len(res.out) :
                  res.out[i] = Unmarshal(files[names[i]]).data

\* List has failed on a directory of two files whose first file parses and
\* whose second does not.
C12_Witness ==
  /\ res.op = "List" /\ res.err = "unmarshal" /\ dirExists
  /\ Cardinality(DOMAIN files) = 2
  /\ BadFiles = {SortedNames(DOMAIN files)[2]}

\* The keys whose last change is a completed Set.
Stored == {k \in Keys : hist[k].op = "Set"}

\* C13: after Put and Remove calls alone, the key stored in every file
\* hashes to the name of that file, and List returns no error and exactly
\* one entry for each key that was Put and not removed since, carrying the
\* original key and the value and expiry of its latest Put, and no other
\* entry.
C13_ListedKeysAreOriginal ==
  res.op = "List" =>
    /\ \A n \in DOMAIN files : Filename(Unmarshal(files[n]).data.Key) = n
    /\ res.err = "nil"
    /\ Len(res.out) = Cardinality(Stored)
    /\ {res.out[i] : i \in 1..Len(res.out)} = {Original(k) : k \in Stored}

\* How often e stands in the sequence s.
Count(s, e) == Cardinality({i \in 1..Len(s) : s[i] = e})

\* C14: List with sort options returns a permutation of the unsorted
\* listing (no entry added, dropped or altered) in the order of the last
\* option applied: ascending by key, ascending by value bytes, or earliest
\* expiry first; so its first element is the smallest key, the smallest
\* value or the soonest expiry.
C14_SortedPermutation ==
  (res.op = "List" /\ res.key # <<>>) =>
    LET unsorted == proc[1].list
        last     == res.key[Len(res.key)]
        n        == Len(res.out)
    IN  /\ n = Len(unsorted)
        /\ \A i \in 1..n : Count(res.out, unsorted[i]) = Count(unsorted, unsorted[i])
        /\ \A i, j \in 1..n : i < j => Cmp(last, res.out[i], res.out[j]) <= 0
        /\ \A j \in 1..n :
             /\ last = "SortByKey" =>
                  Compare(res.out[1].Key, res.out[j].Key) <= 0
             /\ last = "SortByValue" =>
                  Compare(res.out[1].Value, res.out[j].Value) <= 0
             /\ last = "SortByExpiry" =>
                  res.out[1].Expiry <= res.out[j].Expiry

\* List(SortByValue, SortByExpiry) has returned three entries that were
\* listed latest expiry first, soonest expiry first now.
C14_Witness ==
  /\ res.op = "List" /\ res.key = <<"SortByValue", "SortByExpiry">>
  /\ Len(res.out) = 3
  /\ proc[1].list[1].Expiry > proc[1].list[3].Expiry
  /\ res.out[1].Expiry < res.out[3].Expiry
  /\ res.out # proc[1].list

\* Where the entry e stands in the sequence s.
Place(s, e) == CHOOSE i \in 1..Len(s) : s[i] = e

\* C15: SortByExpiry is stable: entries of equal expiry keep the order they
\* had before the sort, so List(SortByKey, SortByExpiry) lists entries of
\* equal expiry in ascending key order.
C15_SortByExpiryStable ==
  /\ [](res.key = <<"SortByKey", "SortByExpiry">> =>
          \A i, j \in 1..Len(res.out) :
            (i < j /\ res.out[i].Expiry = res.out[j].Expiry)
              => Compare(res.out[i].Key, res.out[j].Key) <= 0)
  /\ [][\A c \in Callers :
          ListOption(c, "SortByExpiry") =>
            \A i, j \in 1..Len(res.out) :
              (i < j /\ res.out[i].Expiry = res.out[j].Expiry)
                => Place(res'.out, res.out[i]) < Place(res'.out, res.out[j])]_vars

\* Caller c takes a step of a Get.
GetStep(c) ==
  \/ \E k \in Keys : DoGet(c, k)
  \/ proc[c].op = "Get" /\ (ReadFileRead(c) \/ GetClock(c))

\* C16: Get never creates, modifies or deletes a file; on an expired entry
\* it fails with the expired error, and afterwards Has is still true and
\* Read returns the same record as before.
C16_GetChangesNothing ==
  /\ [][\A c \in Callers :
          GetStep(c) =>
            /\ files' = files /\ dirs' = dirs /\ lost' = lost
            /\ (res'.op = "Get" /\ Read(res'.key).err = "nil"
                  /\ now > Read(res'.key).data.Expiry) =>
                 res' = Result("Get", res'.key, "expired", Nil)]_vars
  /\ []((res.op = "Get" /\ res.err = "expired") =>
          /\ Has(res.key)
          /\ Read(res.key) = [err |-> "nil", data |-> Asked(res.key)]
          /\ now > Asked(res.key).Expiry)

\* Get has failed with the expired error on an entry that is still there
\* with the record of its Put.
C16_Witness ==
  /\ res.op = "Get" /\ res.err = "expired"
  /\ hist[res.key].op = "Set"
  /\ Has(res.key)
  /\ Read(res.key) = [err |-> "nil", data |-> Asked(res.key)]

\* The keys that have a file: those whose last change is a Set, finished,
\* under way or interrupted.
OnDisk == {k \in Keys : hist[k].op \in {"Set", "Setting", "Torn"}}

\* C17: Has(k) is true exactly when k has a file, whatever the clock and
\* the content of the file (expired or unparseable); Has returns just that,
\* and it is false after Remove(k), after Flush and after Delete.
C17_HasIffFile ==
  /\ \A k \in Keys : Has(k) <=> k \in OnDisk
  /\ res.op = "Has" => res.out = (res.key \in OnDisk)
  /\ res.op = "Remove" => ~Has(res.key)
  /\ res.op \in {"Flush", "Delete"} => \A k \in Keys : ~Has(k)

\* Has has returned true for a key whose file does not parse, after the
\* clock has advanced.
C17_Witness ==
  /\ res.op = "Has" /\ res.out = TRUE
  /\ hist[res.key].op = "Torn"
  /\ Read(res.key).err = "unmarshal"
  /\ now > 0

\* C18: Expiry never fails: it returns the expiry of the latest Put when the
\* entry can be read and the zero time when the file is missing or does not
\* parse; so IsExpired is true for every key without a readable entry.
C18_ExpiryNeverFails ==
  /\ \A k \in Keys :
       LET r == Read(k)
       IN  /\ hist[k].op = "Set" => ExpiryOf(r) = hist[k].at + hist[k].dur
           /\ hist[k].op # "Set"
                => (ExpiryOf(r) = ZeroTime /\ IsExpiredAt(now, r))
  /\ res.op = "Expiry" => (res.err = "nil" /\ res.out = Expiry(res.key))
  /\ (res.op = "IsExpired" /\ hist[res.key].op # "Set") =>
       (res.err = "nil" /\ res.out = TRUE)

\* IsExpired has returned true for a key whose file does not parse.
C18_Witness ==
  /\ res.op = "IsExpired" /\ res.out = TRUE
  /\ hist[res.key].op = "Torn"
  /\ Expiry(res.key) = ZeroTime

\* C19: Read(k) ignores expiry: for an entry that exists and parses it
\* returns the record with the original key, the value, and the expiry
\* (clock at the latest Put) + ttl, passed or not; it fails with not-found
\* when k has no file and with the corrupt-entry error when the file does
\* not parse.
C19_ReadIgnoresExpiry ==
  \A k \in Keys :
    /\ hist[k].op = "Set" => Read(k) = [err |-> "nil", data |-> Original(k)]
    /\ k \notin OnDisk => Read(k).err = "not_exist"
    /\ hist[k].op \in {"Setting", "Torn"} => Read(k).err = "unmarshal"
    /\ (res.op = "Read" /\ res.key = k) =>
         (res.err = Read(k).err /\ res.out = Read(k).data)

\* C20: Put("") and Remove("") fail with the invalid-key error, and
\* Remove(k) of a non-empty k without a file fails with not-found; an empty
\* key is never reported as not found.
C20_ErrorKindsDistinct ==
  /\ (res.op \in {"Set", "Remove"} /\ res.key = <<>>) => res.err = "empty_key"
  /\ (res.op = "Remove" /\ res.key # <<>> /\ res.err # "nil")
       => res.err = "not_exist"

\* Caller c takes a step of New in which New returns.
NewReturns(c) ==
  \/ \E dir \in OpenPaths : New(c, dir)
  \/ NewStat(c)
  \/ NewMkdir(c)
  \/ NewLstat(c)

\* C21: New fails for the empty path and for a path that cannot be
\* created, and creates nothing then; New on the existing cache directory
\* succeeds and changes neither a directory nor a file, so that a Get
\* through any handle returns the value Put through any handle.
C21_OpenCreatesNothingOnFailure ==
  /\ [][\A c \in Callers :
          (res'.op = "New" /\ NewReturns(c)) =>
            /\ res'.out # Dir => res'.err # "nil"
            /\ res'.err # "nil" => dirs' \subseteq {Tmp, Dir}
            /\ (proc[c].pc = "idle" /\ res'.out = Dir /\ dirExists) =>
                 (res'.err = "nil" /\ dirs' = dirs)]_vars
  /\ [][\A c \in Callers :
          (proc[c].op = "New" \/ proc'[c].op = "New" \/ res'.op = "New")
            => files' = files]_vars
  /\ []((res.op = "Get" /\ res.err = "nil") =>
          \/ \E c \in Callers : proc[c].pc # "idle"
          \/ hist[res.key].op = "Set" /\ res.out = hist[res.key].val)

\* What holds once Delete, Flush or Put has returned.
AfterDeleteOrFlush ==
  /\ res.op = "Delete" =>
       /\ ~dirExists /\ files = <<>>
       /\ \A k \in Keys : ~Has(k)
       /\ list = [err |-> "readdir", list |-> <<>>]
  /\ (res.op = "Flush" /\ res.err = "nil") =>
       /\ dirExists
       /\ list = [err |-> "nil", list |-> <<>>]
  /\ (res.op = "Set" /\ res.err = "nil") => dirExists

\* C22: Delete removes the directory with every entry, Flush removes the
\* entries and keeps the directory: after Flush, List succeeds with an empty
\* result and Put succeeds; after Delete, Has is false for every key, List
\* fails with the directory error, and Put fails until New has made the
\* directory again.
C22_DeleteVersusFlush ==
  /\ []AfterDeleteOrFlush
  /\ [][\A c \in Callers :
          (proc[c].pc = "set_marshalled" /\ SetOpen(c)) =>
            IF dirExists
            THEN proc'[c].pc = "set_opened" /\ Has(proc[c].key)'
            ELSE /\ res' = Result("Set", proc[c].key, "not_exist", <<>>)
                 /\ files' = files]_vars

\* A Put has failed for want of the directory, which Delete removed with
\* an entry in it.
C22_Witness ==
  /\ res.op = "Set" /\ res.err = "not_exist"
  /\ ~dirExists /\ files = <<>>
  /\ \E k \in Keys : hist[k].op = "Gone"

\* The goroutines of the Clean of caller c that have not finished.
Running(c) == proc[c].pending \cup proc[c].removing \cup proc[c].sending

\* C23: Clean always terminates, and returns only after every goroutine it
\* started has finished. A Clean that has been called returns, whatever the
\* directory holds; a goroutine with a failure to send finds room in the
\* error channel, however many deletions have failed before; while a
\* goroutine has not finished Clean has not returned, and Clean returns
\* with no goroutine left, so that every file a goroutine deletes is
\* deleted before the return.
C23_CleanTerminates ==
  /\ \A c \in Callers : (proc[c].op = "Clean") ~> (res.op = "Clean")
  /\ [](\A c \in Callers :
          proc[c].sending # {} =>
            Len(proc[c].errs) < ChanCap(proc[c].list))
  /\ [](\A c \in Callers :
          Running(c) # {} => (proc[c].pc = "clean" /\ res = Pending))
  /\ [][\A c \in Callers : CleanReturn(c) => Running(c) = {}]_vars

\* C23 witness: Clean has returned the failures of two deletions after two
\* goroutines, each of which had its error to send: the directory holds the
\* two files it listed, both expired, and the file of the key they store is
\* not there.
C23_Witness ==
  /\ res.op = "Clean" /\ res.err = "joined" /\ Len(res.out) = 2
  /\ proc[1].pc = "idle"
  /\ DOMAIN files = {Filename(<<254>>), Filename(<<255>>)}

\* The keys whose file is the i-th of the listing caller c cleans.
ListedKeys(c, i) == {k \in Keys : Filename(k) = proc[c].names[i]}

\* C24: Clean, Get and IsExpired use the same expiry boundary: at any clock
\* value the goroutine of Clean goes on to delete the entry of k exactly
\* when Get(k) fails with the expired error, which is exactly when
\* IsExpired(k) is true; an entry whose expiry equals the clock, which Get
\* returns, is not deleted.
C24_SameExpiryBoundary ==
  /\ [](\A k \in Keys :
          Read(k).err = "nil" => (Get(k).err = "expired" <=> IsExpired(k)))
  /\ [][\A c \in Callers, i \in 1..Cardinality(Keys) :
          (proc[c].pc = "clean" /\ CleanClock(c, i)) =>
            \A k \in ListedKeys(c, i) :
              Read(k).err = "nil" =>
                (i \in proc'[c].removing <=> Get(k).err = "expired")]_vars

\* C25: Clean leaves unexpired entries alone under concurrency: when a Put
\* with a positive ttl completes between Clean's listing and the goroutine
\* of that key, the fresh entry is not deleted: no goroutine of Clean
\* deletes a file whose stored expiry lies in the future at that moment.
C25_CleanSparesFreshEntry ==
  [][\A c \in Callers :
       (proc[c].pc = "clean" /\ CleanTask(c, 1)) =>
         \A n \in DOMAIN files \ DOMAIN files' :
           ~(Unmarshal(files[n]).err = "nil"
               /\ Unmarshal(files[n]).data.Expiry > now)]_vars

\* Whether caller c is in a Put that overwrites an existing entry.
Overwriting(c) == proc[c].pc = "set_opened" /\ proc[c].pval # NoVal

\* The values a read of res returned.
ValuesRead(r) ==
  IF r.op = "Get" THEN {r.out}
  ELSE IF r.op = "Read" THEN {r.out.Value}
  ELSE {r.out[i].Value : i \in 1..Len(r.out)}

\* C26: a Get, Read or List that runs while a Put overwrites an existing
\* entry observes the complete old record or the complete new one: it does
\* not fail with the corrupt-entry error, and a value it returns is the old
\* value or the new one.
C26_ReadersSeeOldOrNew ==
  [][\A c \in Callers :
       (Overwriting(c) /\ proc'[c] = proc[c] /\ res' # res
          /\ res'.op \in {"Get", "Read", "List"}) =>
         /\ res'.err # "unmarshal"
         /\ res'.err = "nil" =>
              ValuesRead(res') \subseteq {proc[c].pval, proc[c].val}]_vars

\* The files on disk that hold an entry whose expiry has passed.
ExpiredFiles ==
  {n \in DOMAIN files :
     /\ Unmarshal(files[n]).err = "nil"
     /\ Unmarshal(files[n]).data.Expiry < now}

\* Caller c is in the enumeration of Clean, or starts it.
Enumerating(c) ==
  \/ proc[c].pc = "idle" /\ CleanList(c)
  \/ proc[c].op = "Clean" /\ proc[c].pc # "clean"

\* C27: a Clean whose enumeration fails (the directory cannot be read, or a
\* file in it does not parse) returns that error, starts no deletion and
\* leaves every file as it was; deletions run only after an enumeration in
\* which every file parsed.
C27_CleanAllOrNothing ==
  /\ [][\A c \in Callers :
          Enumerating(c) =>
            /\ files' = files
            /\ (proc'[c].pc = "idle" /\ (~dirExists \/ BadFiles # {})) =>
                 res' = Result("Clean", <<>>,
                               IF dirExists THEN "unmarshal" ELSE "readdir",
                               <<>>)]_vars
  /\ [](\A c \in Callers :
          proc[c].pc = "clean" =>
            /\ Len(proc[c].list) = Len(proc[c].names)
            /\ BadFiles = {})

C27_Witness ==
  /\ res.op = "Clean"
  /\ res.err = "unmarshal"
  /\ ExpiredFiles # {}

====
